---- MODULE Spec2Model ----
(***************************************************************************)
(* Model of actions/release_homebrew/main.py: the release pipeline of      *)
(* main() (fatal steps, accumulating steps, final check), the formula      *)
(* processing of process_input_formula(), the branch preparation of        *)
(* prepare_repo_branch(), and the subprocess runner _run_subprocess()      *)
(* with its select/readline streaming loop.                                *)
(*                                                                         *)
(* Spec      one main() run of a freshly started process.                  *)
(* SpecRun   one _run_subprocess() call, at the level of the two pipes.    *)
(***************************************************************************)
EXTENDS Integers, Sequences, FiniteSets, TLC

VARIABLES
    pc,                 \* position of the single thread of control in main()
    exc,                \* how the run ended: "none" while running, else the exception or "returned"
    ERROR,              \* main.py:22, the module global
    FAILURES,           \* main.py:23, the module global
    TEMP_DIRECTORIES,   \* main.py:24, the module global
    HOMEBREW_BUILDPATH, \* main.py:25, the module global
    tap_repo_name,      \* main.py:27, the module global
    env,                \* the INPUT_* environment of the run
    fs,                 \* the file system facts the run reads
    git,                \* per repository: the branch that is checked out, and whether the target branch exists
    prep,               \* the activation record of prepare_repo_branch
    commit,             \* the activation record of the commit loop of process_input_formula
    invoked,            \* the step functions main() has called, in call order
    status,             \* what each step function returned
    calls,              \* the children the current step function of main() launched itself, in order
    outputs,            \* the (name, value) pairs appended to GITHUB_OUTPUT, in order
    child,              \* SpecRun: the child process (what it writes, how far it is, whether it has exited)
    pipe,               \* SpecRun: the bytes in flight in the stdout and the stderr pipe
    rd,                 \* SpecRun: the runner (its position, its BufferedReader buffers, the call's arguments)
    printed,            \* SpecRun: the bytes the runner has printed, per stream
    run                 \* how many times main() has been entered in this process

pipeVars == <<pc, exc, ERROR, FAILURES, TEMP_DIRECTORIES, HOMEBREW_BUILDPATH, tap_repo_name,
              env, fs, git, prep, commit, invoked, status, calls, outputs>>
runVars == <<child, pipe, rd, printed>>
vars == <<pipeVars, runVars, run>>

(***************************************************************************)
(* Bounds of the model.                                                    *)
(***************************************************************************)
MaxExit == 2    \* exit statuses of a child are drawn from 0..MaxExit
MaxTmp == 2     \* at most this many '<formula>-*' directories appear under the temp root
MaxRuns == 2    \* main() is entered at most this many times in one process
MaxPrepCalls == 2   \* SpecPrep: prepare_repo_branch is called at most this many times in a row
MaxBytes == 4   \* a child writes at most this many bytes, over both streams
PipeCap == 2    \* bytes a kernel pipe holds before a write to it blocks
BufSize == 2    \* bytes one raw read of a BufferedReader asks the pipe for

ExitCodes == 0..MaxExit

\* What launching a child can do: the child is created and exits with a status,
\* or subprocess.Popen raises (missing executable, permission denied).
SpawnError == [spawned |-> FALSE, exit_code |-> 0]
Outcomes == {[spawned |-> TRUE, exit_code |-> c] : c \in ExitCodes} \cup {SpawnError}

\* the child was created and exited with status 0
Exit0(oc) == oc.spawned /\ oc.exit_code = 0

(***************************************************************************)
(* Strings are sequences of one-character strings, so that str.lower,      *)
(* str.split, str.startswith and slicing are computed, not assumed.        *)
(***************************************************************************)
UpperChars == <<"A","B","C","D","E","F","G","H","I","J","K","L","M",
                "N","O","P","Q","R","S","T","U","V","W","X","Y","Z">>
LowerChars == <<"a","b","c","d","e","f","g","h","i","j","k","l","m",
                "n","o","p","q","r","s","t","u","v","w","x","y","z">>

\* str.lower() on one character
LowerChar(c) ==
    IF \E i \in 1..Len(UpperChars) : UpperChars[i] = c
    THEN LowerChars[CHOOSE i \in 1..Len(UpperChars) : UpperChars[i] = c]
    ELSE c

\* str.lower()
Lower(s) == [i \in 1..Len(s) |-> LowerChar(s[i])]

\* str.startswith(p)
StartsWith(s, p) == Len(s) >= Len(p) /\ SubSeq(s, 1, Len(p)) = p

\* s[n:]
DropFirst(s, n) == SubSeq(s, n + 1, Len(s))

\* str.split(sep) for a one-character separator: every occurrence splits
RECURSIVE SplitAcc(_, _, _)
SplitAcc(s, sep, cur) ==
    IF s = <<>> THEN <<cur>>
    ELSE IF Head(s) = sep THEN <<cur>> \o SplitAcc(Tail(s), sep, <<>>)
    ELSE SplitAcc(Tail(s), sep, Append(cur, Head(s)))

Split(s, sep) == SplitAcc(s, sep, <<>>)

\* str.strip() for the blank character
RECURSIVE LStrip(_)
LStrip(s) == IF s # <<>> /\ Head(s) = " " THEN LStrip(Tail(s)) ELSE s

RECURSIVE RStrip(_)
RStrip(s) == IF s # <<>> /\ s[Len(s)] = " " THEN RStrip(SubSeq(s, 1, Len(s) - 1)) ELSE s

Strip(s) == RStrip(LStrip(s))

\* Python's None, which is no string
None == <<"None">>

\* the truth value of an Optional[str]
Truthy(v) == v # None /\ v # <<>>

Range(q) == {q[i] : i \in 1..Len(q)}

S_true == <<"t","r","u","e">>
S_True == <<"T","r","u","e">>
S_false == <<"f","a","l","s","e">>
S_homebrew_ == <<"h","o","m","e","b","r","e","w","-">>
S_LizardByte_actions == <<"L","i","z","a","r","d","B","y","t","e","/","a","c","t","i","o","n","s">>
S_actions == <<"a","c","t","i","o","n","s">>
S_Owner_homebrew_tap == <<"O","w","/","h","o","m","e","b","r","e","w","-","t","a","p">>
S_Owner_bad == <<"O","w","/","b","a","d">>
S_no_slash == <<"O","w">>
S_two_slashes == <<"O","w","/","h","o","m","e","b","r","e","w","-","t","/","p">>
S_new_formula == <<" ","(","n","e","w"," ","f","o","r","m","u","l","a",")">>
S_release_homebrew_action_ == <<"r","e","l","e","a","s","e","_","h","o","m","e","b","r","e","w","_",
                                "a","c","t","i","o","n","/">>
S_master == <<"m","a","s","t","e","r">>
S_upstream == <<"H","/","c">>       \* a value of INPUT_UPSTREAM_HOMEBREW_CORE_REPO
Digits == <<"1","2","3","4","5","6","7","8","9">>

(***************************************************************************)
(* _run_subprocess, main.py:113-133, after the child has been waited for:  *)
(* what the call returns and the value it leaves in ERROR.                 *)
(***************************************************************************)
\* Variant: ignore_error is not honoured, a non-zero exit always sets ERROR.
_run_subprocess_never_ignores(exit_code, ignore_error, error) ==
    IF exit_code = 0 THEN [ret |-> TRUE, ERROR |-> error]
    ELSE [ret |-> FALSE, ERROR |-> TRUE]

\* Variant: a successful child clears ERROR.
_run_subprocess_clears_on_success(exit_code, ignore_error, error) ==
    IF exit_code = 0 THEN [ret |-> TRUE, ERROR |-> FALSE]
    ELSE IF ~ignore_error THEN [ret |-> FALSE, ERROR |-> TRUE]
    ELSE [ret |-> TRUE, ERROR |-> error]

_run_subprocess(exit_code, ignore_error, error) ==
    IF exit_code = 0 THEN [ret |-> TRUE, ERROR |-> error]
    ELSE IF ~ignore_error THEN [ret |-> FALSE, ERROR |-> TRUE]
    ELSE [ret |-> TRUE, ERROR |-> error]

\* Variant: the owner is returned in lower case.
_get_tap_name_from_repo_lowers(org_homebrew_repo_input) ==
    LET parts == Split(org_homebrew_repo_input, "/") IN
    IF Len(parts) > 2 THEN <<"ValueError", "too many values to unpack (expected 2)">>
    ELSE IF Len(parts) < 2
    THEN <<"ValueError", "not enough values to unpack (expected 2, got 1)">>
    ELSE LET owner == parts[1]
             repo_name == parts[2]
         IN IF StartsWith(repo_name, S_homebrew_)
            THEN <<"ok", Lower(owner), DropFirst(repo_name, 9)>>
            ELSE IF org_homebrew_repo_input = S_LizardByte_actions
            THEN <<"ok", Lower(owner), S_actions>>
            ELSE <<"ValueError", "does not follow Homebrew tap naming convention">>

\* _get_tap_name_from_repo, main.py:523-538: <<"ok", owner, tap_name>>, or
\* <<"ValueError", message>>. The tuple unpacking of line 523 raises Python's own
\* ValueError unless split gives exactly two parts; the message of line 530-535
\* names the repository name, the convention and the input.
_get_tap_name_from_repo(org_homebrew_repo_input) ==
    LET parts == Split(org_homebrew_repo_input, "/") IN
    IF Len(parts) > 2 THEN <<"ValueError", "too many values to unpack (expected 2)">>
    ELSE IF Len(parts) < 2
    THEN <<"ValueError", "not enough values to unpack (expected 2, got 1)">>
    ELSE LET owner == parts[1]
             repo_name == parts[2]
         IN IF StartsWith(repo_name, S_homebrew_)
            THEN <<"ok", owner, DropFirst(repo_name, 9)>>
            ELSE IF org_homebrew_repo_input = S_LizardByte_actions
            THEN <<"ok", owner, S_actions>>
            ELSE <<"ValueError", "does not follow Homebrew tap naming convention">>

\* Variant: the wording for a new formula is never used.
generate_commit_message_never_new(formula, version, is_new) ==
    IF Truthy(version) THEN formula \o <<" ">> \o version ELSE formula

\* generate_commit_message, main.py:433-444
generate_commit_message(formula, version, is_new) ==
    IF is_new
    THEN IF Truthy(version) THEN formula \o <<" ">> \o version \o S_new_formula
         ELSE formula \o S_new_formula
    ELSE IF Truthy(version) THEN formula \o <<" ">> \o version
         ELSE formula

(***************************************************************************)
(* The state of a freshly started process (main.py:19-29) and the inputs   *)
(* of the run.                                                             *)
(***************************************************************************)
Formula == <<"h","w">>          \* os.path.basename(formula_file).split('.')[0], main.py:560
AutoBranch == S_release_homebrew_action_ \o Formula      \* main.py:289 for this formula
GitRepos == {"org", "core"}     \* org_homebrew_repo and homebrew_core_fork_repo, main.py:583-586
RootTmpDirs == <<"HOMEBREW_TEMP", "/private/tmp", "/var/tmp">>    \* main.py:849-853

FatalSteps == <<"brew_upgrade", "brew_test_bot_only_cleanup_before", "brew_test_bot_only_setup">>
AccumulatingSteps == <<"audit_formula", "brew_test_bot_only_tap_syntax", "install_formula",
                       "test_formula", "brew_test_bot_only_formulae">>
StepFunctions == {"is_brew_installed", "process_input_formula"}
                     \cup Range(FatalSteps) \cup Range(AccumulatingSteps)

\* The environment of a run (the INPUT_* variables, and HOMEBREW_BUILDPATH, which the
\* process may have inherited): the values each variable can have. The program
\* never writes the environment; env holds INPUT_VALIDATE from the start and each other
\* variable from the moment the run first reads it, so that every later read sees the
\* same value.
EnvInputs ==
    [INPUT_VALIDATE |-> {S_true, S_True, S_false},
     INPUT_CONTRIBUTE_TO_HOMEBREW_CORE |-> {S_True, S_false},   \* 'True': any letter case of 'true'
     INPUT_UPSTREAM_HOMEBREW_CORE_REPO |-> {<<>>, S_upstream},
     INPUT_ORG_HOMEBREW_REPO |-> {S_Owner_homebrew_tap, S_LizardByte_actions, S_Owner_bad,
                                 S_no_slash, S_two_slashes},
     HOMEBREW_BUILDPATH |-> {None, <<"/", "b">>}]

\* os.environ[name] / os.getenv(name) gives v
Getenv(name, v) ==
    IF name \in DOMAIN env
    THEN v = env[name] /\ UNCHANGED env
    ELSE v \in EnvInputs[name] /\ env' = (name :> v) @@ env

\* Values of the custom head branch variables, of the git identity variables, and
\* results of extract_version_from_formula
HeadBranchInputs == {<<>>, <<" ","c","b"," ">>}
IdentityInputs == {<<>>, <<"i","d">>}
IsdirInputs == {{}, {"/private/tmp", "/var/tmp"}}
VersionInputs == {None, <<"1",".","2">>}

\* The formula file as os.path.exists, os.path.isfile and str.endswith('.rb') see it
FormulaFileInputs ==
    {f \in [exists : BOOLEAN, isfile : BOOLEAN, rb : BOOLEAN] : f.isfile => f.exists}

\* A repository as the checkout step of the workflow leaves it: on master with or
\* without the release branch, or already on the release branch.
FreshRepo == [current |-> S_master, branches |-> {S_master}, upstream_remote |-> FALSE]
GitInputs ==
    {FreshRepo,
     [current |-> S_master, branches |-> {S_master, AutoBranch}, upstream_remote |-> FALSE],
     [current |-> AutoBranch, branches |-> {S_master, AutoBranch}, upstream_remote |-> FALSE]}

\* The entries of the temp root: one that is not the formula's, and '<formula>-<n>'
OtherDir == <<"o","t","h","e","r","-","d","i","r">>
TmpDir(n) == Formula \o <<"-", Digits[n]>>

\* The activation record of prepare_repo_branch (its parameters and locals).
NoPrep == [repo |-> "", og_error |-> FALSE, branch_name |-> <<>>, upstream_repo |-> <<>>,
           output_name |-> "", return |-> "", calls |-> <<>>]
\* The locals of the copy and commit part of process_input_formula (main.py:630-691).
\* probes: for each destination the commit loop has come to, whether its repository
\* root holds a .git directory; returncode: the exit status of the tracked-file query
\* while is_formula_tracked has it, and of `git commit` until the loop moves on, -1
\* otherwise
NoCommit == [tap_dirs |-> <<>>, todo |-> <<>>, version |-> None, message |-> <<>>,
             git_email |-> <<>>, git_username |-> <<>>, commit_messages |-> <<>>, calls |-> <<>>,
             probes |-> <<>>, returncode |-> -1]

NoExc == [type |-> "none", args |-> <<>>]

PipeInit ==
    /\ pc = "is_brew_installed"
    /\ exc = NoExc
    /\ ERROR = FALSE
    /\ FAILURES = <<>>
    /\ TEMP_DIRECTORIES = <<>>
    /\ HOMEBREW_BUILDPATH = <<>>
    /\ tap_repo_name = <<>>
    /\ env \in {("INPUT_VALIDATE" :> v) : v \in EnvInputs.INPUT_VALIDATE}
    /\ fs \in [formula_file : FormulaFileInputs,
               root_tmp_dir : {"unread"},
               tmp : {{OtherDir}},
               copied : {<<>>}]
    /\ git \in {g \in [GitRepos -> GitInputs] : g["core"] = FreshRepo}
    /\ prep = NoPrep
    /\ commit = NoCommit
    /\ invoked = <<>>
    /\ status = [f \in StepFunctions |-> "none"]
    /\ calls = <<>>
    /\ outputs = <<>>

Streams == <<"stdout", "stderr">>

\* One write of the child: a byte to one stream, a newline or not
WriteKinds == [fd : Range(Streams), nl : BOOLEAN]
Progs == UNION {[1..n -> WriteKinds] : n \in 0..MaxBytes}

NoChild == [prog |-> <<>>, pos |-> 1, state |-> "none", exit_code |-> 0]
\* cwd is the working directory of the process, cwd_arg the cwd argument of the
\* call ("None" when it is not given) and cwd_before the working directory when
\* the call began
NoRun == [pc |-> "idle", ignore_error |-> FALSE, og_error |-> FALSE, todo |-> <<>>,
          buf |-> [fd \in Range(Streams) |-> <<>>], ret |-> "none", drained |-> 0,
          cwd |-> "og_dir", cwd_arg |-> "None", cwd_before |-> "og_dir"]

\* No _run_subprocess is followed byte by byte in Spec.
RunIdle ==
    /\ child = NoChild
    /\ pipe = [fd \in Range(Streams) |-> <<>>]
    /\ rd = NoRun
    /\ printed = [fd \in Range(Streams) |-> <<>>]

Init == PipeInit /\ RunIdle /\ run = 1

\* raise: the exception leaves main() and ends the run
Raise(type, args) == pc' = "end" /\ exc' = [type |-> type, args |-> args]

\* main() returns
Return == pc' = "end" /\ exc' = [type |-> "returned", args |-> <<>>]

Goto(p) == pc' = p /\ UNCHANGED exc

Bool(b) == IF b THEN "True" ELSE "False"

\* subprocess.Popen (or subprocess.run) raised: the exception propagates
SpawnFailed == Raise("OSError", <<>>)

\* set_github_action_output, main.py:148-151: one more entry at the end of GITHUB_OUTPUT
set_github_action_output(output_name, output_value) ==
    outputs' = Append(outputs, <<output_name, output_value>>)

(***************************************************************************)
(* main(), first part: the availability check. main.py:946-947             *)
(***************************************************************************)
\* Variant: a failed fatal step does not stop the run.
FatalStep_continues(ok, next, args) == Goto(next)

\* `if not <step>(): raise SystemExit(1)` of main.py:946-947 and 956-967
FatalStep(ok, next, args) == IF ok THEN Goto(next) ELSE Raise("SystemExit", args)

main_is_brew_installed ==
    /\ pc = "is_brew_installed"
    /\ invoked' = Append(invoked, "is_brew_installed")
    /\ calls' = <<"brew --version">>
    /\ \E oc \in Outcomes :
         IF ~oc.spawned
         THEN SpawnFailed /\ UNCHANGED <<ERROR, status>>
         ELSE LET r == _run_subprocess(oc.exit_code, FALSE, ERROR) IN
              /\ ERROR' = r.ERROR
              /\ status' = [status EXCEPT !["is_brew_installed"] = Bool(r.ret)]
              /\ FatalStep(r.ret, "process_input_formula", <<"1", "Homebrew is not installed">>)
    /\ UNCHANGED <<FAILURES, TEMP_DIRECTORIES, HOMEBREW_BUILDPATH, tap_repo_name, env,
                   fs, git, prep, commit, outputs, runVars, run>>

\* Variant: the extension is checked first.
pif_check_formula_file_extension_first ==
    /\ pc = "process_input_formula"
    /\ invoked' = Append(invoked, "process_input_formula")
    /\ calls' = <<>>
    /\ IF ~fs.formula_file.rb THEN Raise("ValueError", <<"is not a .rb file">>)
       ELSE IF ~fs.formula_file.exists THEN Raise("FileNotFoundError", <<"does not exist">>)
       ELSE IF ~fs.formula_file.isfile THEN Raise("FileNotFoundError", <<"is not a file">>)
       ELSE Goto("brew_developer_on")
    /\ UNCHANGED <<ERROR, FAILURES, TEMP_DIRECTORIES, HOMEBREW_BUILDPATH, tap_repo_name, env,
                   fs, git, prep, commit, status, outputs, runVars, run>>

(***************************************************************************)
(* process_input_formula, main.py:541-693                                  *)
(***************************************************************************)
\* main.py:545-564, the three checks of the formula path
pif_check_formula_file ==
    /\ pc = "process_input_formula"
    /\ invoked' = Append(invoked, "process_input_formula")
    /\ calls' = <<>>
    /\ IF ~fs.formula_file.exists THEN Raise("FileNotFoundError", <<"does not exist">>)
       ELSE IF ~fs.formula_file.isfile THEN Raise("FileNotFoundError", <<"is not a file">>)
       ELSE IF ~fs.formula_file.rb THEN Raise("ValueError", <<"is not a .rb file">>)
       ELSE Goto("brew_developer_on")
    /\ UNCHANGED <<ERROR, FAILURES, TEMP_DIRECTORIES, HOMEBREW_BUILDPATH, tap_repo_name, env,
                   fs, git, prep, commit, status, outputs, runVars, run>>

\* main.py:566-574
pif_brew_developer_on ==
    /\ pc = "brew_developer_on"
    /\ calls' = Append(calls, "brew developer on")
    /\ \E oc \in Outcomes :
         IF ~oc.spawned
         THEN SpawnFailed /\ UNCHANGED ERROR
         ELSE /\ ERROR' = _run_subprocess(oc.exit_code, FALSE, ERROR).ERROR
              /\ Goto("get_tap_name")
    /\ UNCHANGED <<FAILURES, TEMP_DIRECTORIES, HOMEBREW_BUILDPATH, tap_repo_name, env, fs,
                   git, prep, commit, invoked, status, outputs, runVars, run>>

\* Variant: tap_repo_name is assigned from the raw input before the input is parsed.
pif_get_tap_name_assigns_first ==
    /\ pc = "get_tap_name"
    /\ \E org_homebrew_repo_input \in EnvInputs.INPUT_ORG_HOMEBREW_REPO :
         /\ Getenv("INPUT_ORG_HOMEBREW_REPO", org_homebrew_repo_input)
         /\ LET t == _get_tap_name_from_repo(org_homebrew_repo_input) IN
            IF t[1] = "ValueError"
            THEN Raise("ValueError", <<t[2]>>)
                 /\ tap_repo_name' = Lower(org_homebrew_repo_input)
            ELSE /\ tap_repo_name' = Lower(t[2]) \o <<"/">> \o t[3]
                 /\ Goto("brew_tap")
    /\ UNCHANGED <<ERROR, FAILURES, TEMP_DIRECTORIES, HOMEBREW_BUILDPATH, fs, git,
                   prep, commit, invoked, status, calls, outputs, runVars, run>>

\* Variant: the owner keeps its case.
pif_get_tap_name_keeps_case ==
    /\ pc = "get_tap_name"
    /\ \E org_homebrew_repo_input \in EnvInputs.INPUT_ORG_HOMEBREW_REPO :
         /\ Getenv("INPUT_ORG_HOMEBREW_REPO", org_homebrew_repo_input)
         /\ LET t == _get_tap_name_from_repo(org_homebrew_repo_input) IN
            IF t[1] = "ValueError"
            THEN Raise("ValueError", <<t[2]>>)
                 /\ UNCHANGED tap_repo_name
            ELSE /\ tap_repo_name' = t[2] \o <<"/">> \o t[3]
                 /\ Goto("brew_tap")
    /\ UNCHANGED <<ERROR, FAILURES, TEMP_DIRECTORIES, HOMEBREW_BUILDPATH, fs, git,
                   prep, commit, invoked, status, calls, outputs, runVars, run>>

\* main.py:576-581
pif_get_tap_name ==
    /\ pc = "get_tap_name"
    /\ \E org_homebrew_repo_input \in EnvInputs.INPUT_ORG_HOMEBREW_REPO :
         /\ Getenv("INPUT_ORG_HOMEBREW_REPO", org_homebrew_repo_input)
         /\ LET t == _get_tap_name_from_repo(org_homebrew_repo_input) IN
            IF t[1] = "ValueError"
            THEN Raise("ValueError", <<t[2]>>)
                 /\ UNCHANGED tap_repo_name
            ELSE /\ tap_repo_name' = Lower(t[2]) \o <<"/">> \o t[3]
                 /\ Goto("brew_tap")
    /\ UNCHANGED <<ERROR, FAILURES, TEMP_DIRECTORIES, HOMEBREW_BUILDPATH, fs, git,
                   prep, commit, invoked, status, calls, outputs, runVars, run>>

\* Variant: the org branch is not prepared.
pif_brew_tap_skips_org ==
    /\ pc = "brew_tap"
    /\ calls' = Append(calls, "brew tap")
    /\ \E oc \in Outcomes :
         IF ~oc.spawned
         THEN SpawnFailed /\ UNCHANGED ERROR
         ELSE /\ ERROR' = _run_subprocess(oc.exit_code, FALSE, ERROR).ERROR
              /\ Goto("contribute_check")
    /\ UNCHANGED <<FAILURES, TEMP_DIRECTORIES, HOMEBREW_BUILDPATH, tap_repo_name, env, fs,
                   git, prep, commit, invoked, status, outputs, runVars, run>>

\* main.py:590-602
pif_brew_tap ==
    /\ pc = "brew_tap"
    /\ calls' = Append(calls, "brew tap")
    /\ \E oc \in Outcomes :
         IF ~oc.spawned
         THEN SpawnFailed /\ UNCHANGED ERROR
         ELSE /\ ERROR' = _run_subprocess(oc.exit_code, FALSE, ERROR).ERROR
              /\ Goto("prepare_org")
    /\ UNCHANGED <<FAILURES, TEMP_DIRECTORIES, HOMEBREW_BUILDPATH, tap_repo_name, env, fs,
                   git, prep, commit, invoked, status, outputs, runVars, run>>

(***************************************************************************)
(* prepare_repo_branch, main.py:242-360                                    *)
(***************************************************************************)
\* Variant: the custom value is used without trimming.
branch_name_of_verbatim(custom_branch_value, branch_suffix) ==
    IF Strip(custom_branch_value) # <<>> THEN custom_branch_value
    ELSE S_release_homebrew_action_ \o branch_suffix

\* main.py:282-290, the name of the branch
branch_name_of(custom_branch_value, branch_suffix) ==
    LET custom_branch == Strip(custom_branch_value) IN
    IF custom_branch # <<>> THEN custom_branch
    ELSE S_release_homebrew_action_ \o branch_suffix

\* main.py:276-290: og_error, and the branch name from the custom branch variable
prepare_repo_branch_begin(repo, custom_branch_value, output_name, upstream_repo, return) ==
    /\ prep' = [repo |-> repo,
                og_error |-> ERROR,
                branch_name |-> branch_name_of(custom_branch_value, Formula),
                upstream_repo |-> upstream_repo,
                output_name |-> output_name,
                return |-> return,
                calls |-> <<>>]
    /\ Goto("prep_rev_parse")

\* main.py:604-617: the org repository, with no upstream
pif_prepare_org ==
    /\ pc = "prepare_org"
    /\ \E v \in HeadBranchInputs :
         prepare_repo_branch_begin("org", v, "org_homebrew_repo_branch", <<>>, "contribute_check")
    /\ UNCHANGED <<ERROR, FAILURES, TEMP_DIRECTORIES, HOMEBREW_BUILDPATH, tap_repo_name, env, fs,
                   git, commit, invoked, status, calls, outputs, runVars, run>>

\* Variant: the value is compared as it is written.
pif_contribute_check_exact ==
    /\ pc = "contribute_check"
    /\ \E v \in EnvInputs.INPUT_CONTRIBUTE_TO_HOMEBREW_CORE :
         /\ Getenv("INPUT_CONTRIBUTE_TO_HOMEBREW_CORE", v)
         /\ IF v = S_true THEN Goto("prepare_core") ELSE Goto("tap_dirs")
    /\ UNCHANGED <<ERROR, FAILURES, TEMP_DIRECTORIES, HOMEBREW_BUILDPATH, tap_repo_name, fs, git,
                   prep, commit, invoked, status, calls, outputs, runVars, run>>

\* main.py:619
pif_contribute_check ==
    /\ pc = "contribute_check"
    /\ \E v \in EnvInputs.INPUT_CONTRIBUTE_TO_HOMEBREW_CORE :
         /\ Getenv("INPUT_CONTRIBUTE_TO_HOMEBREW_CORE", v)
         /\ IF Lower(v) = S_true THEN Goto("prepare_core") ELSE Goto("tap_dirs")
    /\ UNCHANGED <<ERROR, FAILURES, TEMP_DIRECTORIES, HOMEBREW_BUILDPATH, tap_repo_name, fs, git,
                   prep, commit, invoked, status, calls, outputs, runVars, run>>

\* main.py:620-628: the fork of homebrew-core, synced with the upstream repository
pif_prepare_core ==
    /\ pc = "prepare_core"
    /\ \E v \in HeadBranchInputs, upstream_repo \in EnvInputs.INPUT_UPSTREAM_HOMEBREW_CORE_REPO :
         /\ Getenv("INPUT_UPSTREAM_HOMEBREW_CORE_REPO", upstream_repo)
         /\ prepare_repo_branch_begin("core", v, "homebrew_core_branch", upstream_repo, "tap_dirs")
    /\ UNCHANGED <<ERROR, FAILURES, TEMP_DIRECTORIES, HOMEBREW_BUILDPATH, tap_repo_name, fs,
                   git, commit, invoked, status, calls, outputs, runVars, run>>

\* Variant: the upstream sync runs whether or not an upstream repository is given.
AfterCheckout_always_syncs == "prep_remote_add"

\* where prepare_repo_branch goes once the branch is checked out: main.py:324-325
AfterCheckout == IF prep.upstream_repo # <<>> THEN "prep_remote_add" ELSE "prep_publish"

\* a launch by prepare_repo_branch
PrepLaunch(cmd) == [prep EXCEPT !.calls = Append(@, cmd)]

\* Variant: finding the repository already on the branch clears ERROR.
prep_rev_parse_clears ==
    /\ pc = "prep_rev_parse"
    /\ prep' = PrepLaunch("git rev-parse --abbrev-ref HEAD")
    /\ \E oc \in Outcomes :
         IF ~oc.spawned
         THEN SpawnFailed /\ UNCHANGED ERROR
         ELSE LET current_branch == IF oc.exit_code = 0 THEN git[prep.repo].current ELSE <<>> IN
              IF current_branch = prep.branch_name
              THEN ERROR' = FALSE /\ Goto(AfterCheckout)
              ELSE UNCHANGED ERROR /\ Goto("prep_checkout_new")
    /\ UNCHANGED <<FAILURES, TEMP_DIRECTORIES, HOMEBREW_BUILDPATH, tap_repo_name, env, fs,
                   git, commit, invoked, status, calls, outputs, runVars, run>>

\* main.py:292-304: `git rev-parse --abbrev-ref HEAD` through subprocess.run
prep_rev_parse ==
    /\ pc = "prep_rev_parse"
    /\ prep' = PrepLaunch("git rev-parse --abbrev-ref HEAD")
    /\ \E oc \in Outcomes :
         IF ~oc.spawned
         THEN SpawnFailed /\ UNCHANGED ERROR
         ELSE LET current_branch == IF oc.exit_code = 0 THEN git[prep.repo].current ELSE <<>> IN
              IF current_branch = prep.branch_name
              THEN ERROR' = prep.og_error /\ Goto(AfterCheckout)
              ELSE UNCHANGED ERROR /\ Goto("prep_checkout_new")
    /\ UNCHANGED <<FAILURES, TEMP_DIRECTORIES, HOMEBREW_BUILDPATH, tap_repo_name, env, fs,
                   git, commit, invoked, status, calls, outputs, runVars, run>>

\* Variant: a successful checkout leaves ERROR as the checkout commands left it.
prep_checkout_result_keeps(result, error) ==
    IF result
    THEN ERROR' = error /\ Goto(AfterCheckout)
    ELSE ERROR' = error /\ Raise("SystemExit", <<"1", "Failed to create or checkout branch", prep.branch_name>>)

\* Variant: a successful checkout clears ERROR instead of restoring it.
prep_checkout_result_clears(result, error) ==
    IF result
    THEN ERROR' = FALSE /\ Goto(AfterCheckout)
    ELSE ERROR' = error /\ Raise("SystemExit", <<"1", "Failed to create or checkout branch", prep.branch_name>>)

\* Variant: the call goes on when both checkouts failed.
prep_checkout_result_continues(result, error) ==
    IF result
    THEN ERROR' = prep.og_error /\ Goto(AfterCheckout)
    ELSE ERROR' = error /\ Goto(AfterCheckout)

\* main.py:318-322: the end of the checkout branch of prepare_repo_branch
prep_checkout_result(result, error) ==
    IF result
    THEN ERROR' = prep.og_error /\ Goto(AfterCheckout)
    ELSE ERROR' = error /\ Raise("SystemExit", <<"1", "Failed to create or checkout branch", prep.branch_name>>)

\* main.py:306-319: `git checkout -b <branch>`; git refuses to create a branch that exists
prep_checkout_new ==
    /\ pc = "prep_checkout_new"
    /\ prep' = PrepLaunch("git checkout -b")
    /\ \E oc \in Outcomes :
         /\ Exit0(oc) => prep.branch_name \notin git[prep.repo].branches
         /\ IF ~oc.spawned
            THEN SpawnFailed /\ UNCHANGED <<ERROR, git>>
            ELSE LET r == _run_subprocess(oc.exit_code, FALSE, ERROR) IN
                 IF r.ret
                 THEN /\ git' = [git EXCEPT ![prep.repo].current = prep.branch_name,
                                            ![prep.repo].branches = @ \cup {prep.branch_name}]
                      /\ prep_checkout_result(TRUE, r.ERROR)
                 ELSE /\ ERROR' = r.ERROR
                      /\ Goto("prep_checkout_existing")
                      /\ UNCHANGED git
    /\ UNCHANGED <<FAILURES, TEMP_DIRECTORIES, HOMEBREW_BUILDPATH, tap_repo_name, env, fs,
                   commit, invoked, status, calls, outputs, runVars, run>>

\* main.py:311-322: `git checkout <branch>`; git cannot switch to a branch that does not exist
prep_checkout_existing ==
    /\ pc = "prep_checkout_existing"
    /\ prep' = PrepLaunch("git checkout")
    /\ \E oc \in Outcomes :
         /\ Exit0(oc) => prep.branch_name \in git[prep.repo].branches
         /\ IF ~oc.spawned
            THEN SpawnFailed /\ UNCHANGED <<ERROR, git>>
            ELSE LET r == _run_subprocess(oc.exit_code, FALSE, ERROR) IN
                 /\ git' = IF r.ret THEN [git EXCEPT ![prep.repo].current = prep.branch_name] ELSE git
                 /\ prep_checkout_result(r.ret, r.ERROR)
    /\ UNCHANGED <<FAILURES, TEMP_DIRECTORIES, HOMEBREW_BUILDPATH, tap_repo_name, env, fs,
                   commit, invoked, status, calls, outputs, runVars, run>>

\* main.py:324-337: `git remote add upstream <url>`; git refuses a remote that exists
prep_remote_add ==
    /\ pc = "prep_remote_add"
    /\ prep' = PrepLaunch("git remote add upstream")
    /\ \E oc \in Outcomes :
         /\ Exit0(oc) => ~git[prep.repo].upstream_remote
         /\ IF ~oc.spawned
            THEN SpawnFailed /\ UNCHANGED <<ERROR, git>>
            ELSE /\ ERROR' = _run_subprocess(oc.exit_code, FALSE, ERROR).ERROR
                 /\ git' = IF Exit0(oc) THEN [git EXCEPT ![prep.repo].upstream_remote = TRUE] ELSE git
                 /\ Goto("prep_fetch")
    /\ UNCHANGED <<FAILURES, TEMP_DIRECTORIES, HOMEBREW_BUILDPATH, tap_repo_name, env, fs,
                   commit, invoked, status, calls, outputs, runVars, run>>

\* main.py:339-344: `git fetch upstream --depth=1`; there is nothing to fetch from a
\* remote that does not exist
prep_fetch ==
    /\ pc = "prep_fetch"
    /\ prep' = PrepLaunch("git fetch upstream --depth=1")
    /\ \E oc \in Outcomes :
         /\ Exit0(oc) => git[prep.repo].upstream_remote
         /\ IF ~oc.spawned
            THEN SpawnFailed /\ UNCHANGED ERROR
            ELSE /\ ERROR' = _run_subprocess(oc.exit_code, FALSE, ERROR).ERROR
                 /\ Goto("prep_reset")
    /\ UNCHANGED <<FAILURES, TEMP_DIRECTORIES, HOMEBREW_BUILDPATH, tap_repo_name, env, fs,
                   git, commit, invoked, status, calls, outputs, runVars, run>>

\* main.py:346-351: `git reset --hard upstream/<upstream_branch>` discards what the
\* working tree of the repository held
prep_reset ==
    /\ pc = "prep_reset"
    /\ prep' = PrepLaunch("git reset --hard")
    /\ \E oc \in Outcomes :
         IF ~oc.spawned
         THEN SpawnFailed /\ UNCHANGED <<ERROR, fs>>
         ELSE /\ ERROR' = _run_subprocess(oc.exit_code, FALSE, ERROR).ERROR
              /\ fs' = IF Exit0(oc)
                       THEN [fs EXCEPT !.copied = SelectSeq(@, LAMBDA d : d # prep.repo)]
                       ELSE fs
              /\ Goto("prep_publish")
    /\ UNCHANGED <<FAILURES, TEMP_DIRECTORIES, HOMEBREW_BUILDPATH, tap_repo_name, env, git,
                   commit, invoked, status, calls, outputs, runVars, run>>

\* main.py:353-360: publish the branch name and return it
prep_publish ==
    /\ pc = "prep_publish"
    /\ set_github_action_output(prep.output_name, prep.branch_name)
    /\ prep' = NoPrep
    /\ Goto(prep.return)
    /\ UNCHANGED <<ERROR, FAILURES, TEMP_DIRECTORIES, HOMEBREW_BUILDPATH, tap_repo_name, env,
                   fs, git, commit, invoked, status, calls, runVars, run>>

(***************************************************************************)
(* process_input_formula, second part: copy and commit, main.py:630-693    *)
(***************************************************************************)
\* main.py:630-658: the destinations; the tapped location only when the second
\* availability check succeeds
pif_tap_dirs ==
    /\ pc = "tap_dirs"
    /\ \E oc \in Outcomes :
         IF ~oc.spawned
         THEN /\ SpawnFailed
              /\ calls' = Append(calls, "brew --version")
              /\ UNCHANGED <<ERROR, commit>>
         ELSE LET r == _run_subprocess(oc.exit_code, FALSE, ERROR) IN
              /\ ERROR' = r.ERROR
              /\ calls' = IF r.ret THEN calls \o <<"brew --version", "brew --repository">>
                          ELSE Append(calls, "brew --version")
              /\ commit' = [commit EXCEPT !.tap_dirs = IF r.ret THEN <<"org", "core", "tap">>
                                                        ELSE <<"org", "core">>]
              /\ Goto("copy")
    /\ UNCHANGED <<FAILURES, TEMP_DIRECTORIES, HOMEBREW_BUILDPATH, tap_repo_name, env, fs,
                   git, prep, invoked, status, outputs, runVars, run>>

\* Variant: the destinations after the failed one are copied to all the same.
copy_formula_to_directories_continues(tap_dirs, failed_at) ==
    IF failed_at = 0 THEN tap_dirs
    ELSE SubSeq(tap_dirs, 1, failed_at - 1) \o SubSeq(tap_dirs, failed_at + 1, Len(tap_dirs))

\* copy_formula_to_directories, main.py:488-503, called at main.py:660: the copies made
\* when the existence check fails at the failed_at-th destination (0: it never fails)
copy_formula_to_directories(tap_dirs, failed_at) ==
    IF failed_at = 0 THEN tap_dirs ELSE SubSeq(tap_dirs, 1, failed_at - 1)

pif_copy ==
    /\ pc = "copy"
    /\ \E failed_at \in 0..Len(commit.tap_dirs) :
         /\ fs' = [fs EXCEPT !.copied = @ \o copy_formula_to_directories(commit.tap_dirs, failed_at)]
         /\ IF failed_at = 0
            THEN Goto("extract_version")
            ELSE Raise("FileNotFoundError", <<"was not copied to", commit.tap_dirs[failed_at]>>)
    /\ UNCHANGED <<ERROR, FAILURES, TEMP_DIRECTORIES, HOMEBREW_BUILDPATH, tap_repo_name, env, git,
                   prep, commit, invoked, status, calls, outputs, runVars, run>>

\* main.py:664-668: the version of the formula, and the items of tap_dir_to_repo in
\* insertion order (main.py:639-640, 658). The git identity is what every
\* commit_formula_changes reads at main.py:207-208.
pif_extract_version ==
    /\ pc = "extract_version"
    /\ \E v \in VersionInputs, email \in IdentityInputs, username \in IdentityInputs :
         commit' = [commit EXCEPT !.version = v, !.todo = commit.tap_dirs,
                                  !.git_email = email, !.git_username = username]
    /\ Goto("commit_next")
    /\ UNCHANGED <<ERROR, FAILURES, TEMP_DIRECTORIES, HOMEBREW_BUILDPATH, tap_repo_name, env, fs,
                   git, prep, invoked, status, calls, outputs, runVars, run>>

\* a launch by commit_formula_changes, or by the is_formula_tracked before it
CommitLaunch(cmd) == [commit EXCEPT !.calls = Append(@, cmd)]

\* is_formula_tracked, main.py:468
is_formula_tracked(returncode) == returncode = 0

\* Variant: a destination is committed to whether or not it is a git repository.
pif_commit_next_always_commits ==
    /\ pc = "commit_next"
    /\ commit.todo # <<>>
    /\ \E is_git \in BOOLEAN :
         /\ commit' = [commit EXCEPT !.calls = <<>>, !.returncode = -1,
                                     !.probes = Append(@, [dir |-> Head(commit.todo), is_git |-> is_git])]
         /\ Goto("is_formula_tracked")
    /\ UNCHANGED <<ERROR, FAILURES, TEMP_DIRECTORIES, HOMEBREW_BUILDPATH, tap_repo_name, env, fs,
                   git, prep, invoked, status, calls, outputs, runVars, run>>

\* main.py:670-671, 682-683: the head of the commit loop, where a destination whose
\* repository root has no .git directory is passed over
pif_commit_next ==
    /\ pc = "commit_next"
    /\ commit.todo # <<>>
    /\ \E is_git \in BOOLEAN :
         /\ commit' = [commit EXCEPT !.calls = <<>>, !.returncode = -1,
                                     !.todo = IF is_git THEN @ ELSE Tail(@),
                                     !.probes = Append(@, [dir |-> Head(commit.todo), is_git |-> is_git])]
         /\ Goto(IF is_git THEN "is_formula_tracked" ELSE "commit_next")
    /\ UNCHANGED <<ERROR, FAILURES, TEMP_DIRECTORIES, HOMEBREW_BUILDPATH, tap_repo_name, env, fs,
                   git, prep, invoked, status, calls, outputs, runVars, run>>

\* is_formula_tracked, main.py:463-467: `git ls-files --error-unmatch` through
\* subprocess.run
pif_is_formula_tracked ==
    /\ pc = "is_formula_tracked"
    /\ \E returncode \in ExitCodes :
         commit' = [commit EXCEPT !.calls = <<"git ls-files --error-unmatch">>,
                                  !.returncode = returncode]
    /\ Goto("generate_commit_message")
    /\ UNCHANGED <<ERROR, FAILURES, TEMP_DIRECTORIES, HOMEBREW_BUILDPATH, tap_repo_name, env, fs,
                   git, prep, invoked, status, calls, outputs, runVars, run>>

\* main.py:673-677: is_new from the result of is_formula_tracked, the message, and
\* the entry of commit_messages
pif_generate_commit_message ==
    /\ pc = "generate_commit_message"
    /\ LET is_new == ~is_formula_tracked(commit.returncode)
           commit_message == generate_commit_message(Formula, commit.version, is_new)
       IN commit' = [commit EXCEPT !.message = commit_message,
                                   !.commit_messages = Append(@, <<Head(commit.todo), commit_message>>),
                                   !.returncode = -1]
    /\ Goto("git_config_email")
    /\ UNCHANGED <<ERROR, FAILURES, TEMP_DIRECTORIES, HOMEBREW_BUILDPATH, tap_repo_name, env, fs,
                   git, prep, invoked, status, calls, outputs, runVars, run>>

\* commit_formula_changes, main.py:206-215
commit_git_config_email ==
    /\ pc = "git_config_email"
    /\ IF commit.git_email # <<>>
       THEN /\ commit' = CommitLaunch("git config user.email")
            /\ \E oc \in Outcomes :
                 IF ~oc.spawned
                 THEN SpawnFailed /\ UNCHANGED ERROR
                 ELSE ERROR' = _run_subprocess(oc.exit_code, FALSE, ERROR).ERROR /\ Goto("git_config_name")
       ELSE Goto("git_config_name") /\ UNCHANGED <<ERROR, commit>>
    /\ UNCHANGED <<FAILURES, TEMP_DIRECTORIES, HOMEBREW_BUILDPATH, tap_repo_name, env, fs,
                   git, prep, invoked, status, calls, outputs, runVars, run>>

\* commit_formula_changes, main.py:217-222
commit_git_config_name ==
    /\ pc = "git_config_name"
    /\ IF commit.git_username # <<>>
       THEN /\ commit' = CommitLaunch("git config user.name")
            /\ \E oc \in Outcomes :
                 IF ~oc.spawned
                 THEN SpawnFailed /\ UNCHANGED ERROR
                 ELSE ERROR' = _run_subprocess(oc.exit_code, FALSE, ERROR).ERROR /\ Goto("git_add")
       ELSE Goto("git_add") /\ UNCHANGED <<ERROR, commit>>
    /\ UNCHANGED <<FAILURES, TEMP_DIRECTORIES, HOMEBREW_BUILDPATH, tap_repo_name, env, fs,
                   git, prep, invoked, status, calls, outputs, runVars, run>>

\* commit_formula_changes, main.py:224-229
commit_git_add ==
    /\ pc = "git_add"
    /\ commit' = CommitLaunch("git add -A")
    /\ \E oc \in Outcomes :
         IF ~oc.spawned
         THEN SpawnFailed /\ UNCHANGED ERROR
         ELSE ERROR' = _run_subprocess(oc.exit_code, FALSE, ERROR).ERROR /\ Goto("git_commit")
    /\ UNCHANGED <<FAILURES, TEMP_DIRECTORIES, HOMEBREW_BUILDPATH, tap_repo_name, env, fs,
                   git, prep, invoked, status, calls, outputs, runVars, run>>

\* Variant: the commit is run without ignore_error.
commit_git_commit_counts_error ==
    /\ pc = "git_commit"
    /\ \E oc \in Outcomes :
         IF ~oc.spawned
         THEN SpawnFailed /\ UNCHANGED ERROR /\ commit' = CommitLaunch("git commit -m")
         ELSE /\ ERROR' = _run_subprocess(oc.exit_code, FALSE, ERROR).ERROR
              /\ commit' = [commit EXCEPT !.todo = Tail(@), !.calls = Append(@, "git commit -m"),
                                          !.returncode = oc.exit_code]
              /\ Goto("commit_next")
    /\ UNCHANGED <<FAILURES, TEMP_DIRECTORIES, HOMEBREW_BUILDPATH, tap_repo_name, env, fs,
                   git, prep, invoked, status, calls, outputs, runVars, run>>

\* commit_formula_changes, main.py:231-239: the commit, with ignore_error
commit_git_commit ==
    /\ pc = "git_commit"
    /\ \E oc \in Outcomes :
         IF ~oc.spawned
         THEN SpawnFailed /\ UNCHANGED ERROR /\ commit' = CommitLaunch("git commit -m")
         ELSE /\ ERROR' = _run_subprocess(oc.exit_code, TRUE, ERROR).ERROR
              /\ commit' = [commit EXCEPT !.todo = Tail(@), !.calls = Append(@, "git commit -m"),
                                          !.returncode = oc.exit_code]
              /\ Goto("commit_next")
    /\ UNCHANGED <<FAILURES, TEMP_DIRECTORIES, HOMEBREW_BUILDPATH, tap_repo_name, env, fs,
                   git, prep, invoked, status, calls, outputs, runVars, run>>

\* main.py:685-693: the commit_message output, and the return to main()
pif_commit_message_output ==
    /\ pc = "commit_next"
    /\ commit.todo = <<>>
    /\ LET org == SelectSeq(commit.commit_messages, LAMBDA m : m[1] = "org") IN
       IF org # <<>>
       THEN set_github_action_output("commit_message", org[1][2])
       ELSE UNCHANGED outputs
    /\ commit' = NoCommit
    /\ status' = [status EXCEPT !["process_input_formula"] = "returned"]
    /\ Goto("validate_check")
    /\ UNCHANGED <<ERROR, FAILURES, TEMP_DIRECTORIES, HOMEBREW_BUILDPATH, tap_repo_name, env,
                   fs, git, prep, invoked, calls, runVars, run>>

(***************************************************************************)
(* main(), second part: validation. main.py:952-995                        *)
(***************************************************************************)
\* Variant: the validation steps run whatever INPUT_VALIDATE holds.
main_validate_check_always ==
    /\ pc = "validate_check"
    /\ Goto("brew_update")
    /\ UNCHANGED <<ERROR, FAILURES, TEMP_DIRECTORIES, HOMEBREW_BUILDPATH, tap_repo_name, env, fs,
                   git, prep, commit, invoked, status, calls, outputs, runVars, run>>

\* main.py:952-954
main_validate_check ==
    /\ pc = "validate_check"
    /\ \E v \in EnvInputs.INPUT_VALIDATE :
         /\ Getenv("INPUT_VALIDATE", v)
         /\ IF Lower(v) # S_true THEN Return ELSE Goto("brew_update")
    /\ UNCHANGED <<ERROR, FAILURES, TEMP_DIRECTORIES, HOMEBREW_BUILDPATH, tap_repo_name, fs, git,
                   prep, commit, invoked, status, calls, outputs, runVars, run>>

\* Variant: `brew upgrade` runs whatever `brew update` gave.
brew_upgrade_update_continues ==
    /\ pc = "brew_update"
    /\ invoked' = Append(invoked, "brew_upgrade")
    /\ calls' = <<"brew update">>
    /\ \E oc \in Outcomes :
         IF ~oc.spawned
         THEN SpawnFailed /\ UNCHANGED <<ERROR, status>>
         ELSE LET r == _run_subprocess(oc.exit_code, FALSE, ERROR) IN
              /\ ERROR' = r.ERROR
              /\ Goto("brew_upgrade") /\ UNCHANGED status
    /\ UNCHANGED <<FAILURES, TEMP_DIRECTORIES, HOMEBREW_BUILDPATH, tap_repo_name, env,
                   fs, git, prep, commit, outputs, runVars, run>>

\* brew_upgrade, main.py:723-743: `brew update`; main.py:956-959 when it fails
brew_upgrade_update ==
    /\ pc = "brew_update"
    /\ invoked' = Append(invoked, "brew_upgrade")
    /\ calls' = <<"brew update">>
    /\ \E oc \in Outcomes :
         IF ~oc.spawned
         THEN SpawnFailed /\ UNCHANGED <<ERROR, status>>
         ELSE LET r == _run_subprocess(oc.exit_code, FALSE, ERROR) IN
              /\ ERROR' = r.ERROR
              /\ IF ~r.ret
                 THEN /\ status' = [status EXCEPT !["brew_upgrade"] = Bool(FALSE)]
                      /\ FatalStep(FALSE, "brew_upgrade", <<"1">>)
                 ELSE Goto("brew_upgrade") /\ UNCHANGED status
    /\ UNCHANGED <<FAILURES, TEMP_DIRECTORIES, HOMEBREW_BUILDPATH, tap_repo_name, env,
                   fs, git, prep, commit, outputs, runVars, run>>

\* brew_upgrade, main.py:745-755: `brew upgrade`; main.py:956-959
brew_upgrade_upgrade ==
    /\ pc = "brew_upgrade"
    /\ calls' = Append(calls, "brew upgrade")
    /\ \E oc \in Outcomes :
         IF ~oc.spawned
         THEN SpawnFailed /\ UNCHANGED <<ERROR, status>>
         ELSE LET r == _run_subprocess(oc.exit_code, FALSE, ERROR) IN
              /\ ERROR' = r.ERROR
              /\ status' = [status EXCEPT !["brew_upgrade"] = Bool(r.ret)]
              /\ FatalStep(r.ret, "brew_test_bot_only_cleanup_before", <<"1">>)
    /\ UNCHANGED <<FAILURES, TEMP_DIRECTORIES, HOMEBREW_BUILDPATH, tap_repo_name, env, fs,
                   git, prep, commit, invoked, outputs, runVars, run>>

\* brew_test_bot_only_cleanup_before, main.py:758-769; main.py:961-963
brew_test_bot_only_cleanup_before ==
    /\ pc = "brew_test_bot_only_cleanup_before"
    /\ invoked' = Append(invoked, "brew_test_bot_only_cleanup_before")
    /\ calls' = <<"brew test-bot --only-cleanup-before">>
    /\ \E oc \in Outcomes :
         IF ~oc.spawned
         THEN SpawnFailed /\ UNCHANGED <<ERROR, status>>
         ELSE LET r == _run_subprocess(oc.exit_code, FALSE, ERROR) IN
              /\ ERROR' = r.ERROR
              /\ status' = [status EXCEPT !["brew_test_bot_only_cleanup_before"] = Bool(r.ret)]
              /\ FatalStep(r.ret, "brew_test_bot_only_setup", <<"1">>)
    /\ UNCHANGED <<FAILURES, TEMP_DIRECTORIES, HOMEBREW_BUILDPATH, tap_repo_name, env,
                   fs, git, prep, commit, outputs, runVars, run>>

\* brew_test_bot_only_setup, main.py:772-783; main.py:965-967
brew_test_bot_only_setup ==
    /\ pc = "brew_test_bot_only_setup"
    /\ invoked' = Append(invoked, "brew_test_bot_only_setup")
    /\ calls' = <<"brew test-bot --only-setup">>
    /\ \E oc \in Outcomes :
         IF ~oc.spawned
         THEN SpawnFailed /\ UNCHANGED <<ERROR, status>>
         ELSE LET r == _run_subprocess(oc.exit_code, FALSE, ERROR) IN
              /\ ERROR' = r.ERROR
              /\ status' = [status EXCEPT !["brew_test_bot_only_setup"] = Bool(r.ret)]
              /\ FatalStep(r.ret, "audit_formula", <<"1">>)
    /\ UNCHANGED <<FAILURES, TEMP_DIRECTORIES, HOMEBREW_BUILDPATH, tap_repo_name, env,
                   fs, git, prep, commit, outputs, runVars, run>>

\* Variant: a failed accumulating step is not recorded.
AccumulatingStep_forgets(ok, name) == FAILURES

\* `if not <step>(): FAILURES.append(<name>)` of main.py:969-987: the new FAILURES
AccumulatingStep(ok, name) == IF ~ok THEN Append(FAILURES, name) ELSE FAILURES

\* audit_formula, main.py:706-720; main.py:969-971
audit_formula ==
    /\ pc = "audit_formula"
    /\ invoked' = Append(invoked, "audit_formula")
    /\ calls' = <<"brew audit">>
    /\ \E oc \in Outcomes :
         IF ~oc.spawned
         THEN SpawnFailed /\ UNCHANGED <<ERROR, status, FAILURES>>
         ELSE LET r == _run_subprocess(oc.exit_code, FALSE, ERROR) IN
              /\ ERROR' = r.ERROR
              /\ status' = [status EXCEPT !["audit_formula"] = Bool(r.ret)]
              /\ FAILURES' = AccumulatingStep(r.ret, "audit")
              /\ Goto("brew_test_bot_only_tap_syntax")
    /\ UNCHANGED <<TEMP_DIRECTORIES, HOMEBREW_BUILDPATH, tap_repo_name, env, fs,
                   git, prep, commit, outputs, runVars, run>>

\* brew_test_bot_only_tap_syntax, main.py:786-797; main.py:973-975
brew_test_bot_only_tap_syntax ==
    /\ pc = "brew_test_bot_only_tap_syntax"
    /\ invoked' = Append(invoked, "brew_test_bot_only_tap_syntax")
    /\ calls' = <<"brew test-bot --only-tap-syntax">>
    /\ \E oc \in Outcomes :
         IF ~oc.spawned
         THEN SpawnFailed /\ UNCHANGED <<ERROR, status, FAILURES>>
         ELSE LET r == _run_subprocess(oc.exit_code, FALSE, ERROR) IN
              /\ ERROR' = r.ERROR
              /\ status' = [status EXCEPT !["brew_test_bot_only_tap_syntax"] = Bool(r.ret)]
              /\ FAILURES' = AccumulatingStep(r.ret, "tap-syntax")
              /\ Goto("install_formula")
    /\ UNCHANGED <<TEMP_DIRECTORIES, HOMEBREW_BUILDPATH, tap_repo_name, env, fs,
                   git, prep, commit, outputs, runVars, run>>

\* main.py:855-856: the first temp root that exists, "" for None
root_tmp_dir(isdir) ==
    LET idx == {i \in 1..Len(RootTmpDirs) : RootTmpDirs[i] \in isdir} IN
    IF idx = {} THEN ""
    ELSE RootTmpDirs[CHOOSE i \in idx : \A j \in idx : i <= j]

\* The temp roots do not come and go during a run: fs.root_tmp_dir holds what
\* main.py:856 gave from the first time find_tmp_dir evaluates it.
RootTmpDirRead(root) ==
    IF fs.root_tmp_dir # "unread" THEN root = fs.root_tmp_dir
    ELSE \E isdir \in IsdirInputs : root = root_tmp_dir(isdir)

\* Variant: the directories already in TEMP_DIRECTORIES are not passed over.
find_tmp_dir_forgets(formula, root, entries, temp_directories) ==
    {<<root, d>> : d \in {x \in entries : StartsWith(x, formula \o <<"-">>)}}

\* find_tmp_dir, main.py:863-870: the directories the loop over os.listdir can stop at,
\* each as <<root, entry>> for os.path.join(root, entry)
find_tmp_dir(formula, root, entries, temp_directories) ==
    {<<root, d>> : d \in {x \in entries : StartsWith(x, formula \o <<"-">>)}}
        \ Range(temp_directories)

\* What the temp root lists after a brew child run with --keep-tmp: what it listed
\* before and any number of new '<formula>-<n>' directories, numbered as they are made
KeepTmp(entries) ==
    LET k == Cardinality({n \in 1..MaxTmp : TmpDir(n) \in entries}) IN
    {entries \cup {TmpDir(n) : n \in (k + 1)..m} : m \in k..MaxTmp}

\* install_formula, main.py:880-912; main.py:977-979
install_formula ==
    /\ pc = "install_formula"
    /\ invoked' = Append(invoked, "install_formula")
    /\ calls' = <<"brew install">>
    /\ \E oc \in Outcomes, entries \in KeepTmp(fs.tmp), root \in Range(RootTmpDirs) \cup {""} :
         IF ~oc.spawned
         THEN /\ SpawnFailed
              /\ entries = fs.tmp /\ root = ""
              /\ UNCHANGED <<ERROR, status, FAILURES, fs, TEMP_DIRECTORIES, HOMEBREW_BUILDPATH, outputs>>
         ELSE LET r == _run_subprocess(oc.exit_code, FALSE, ERROR)
                  found == find_tmp_dir(Formula, root, entries, TEMP_DIRECTORIES)
              IN /\ RootTmpDirRead(root)
                 /\ ERROR' = r.ERROR
                 /\ fs' = [fs EXCEPT !.tmp = entries, !.root_tmp_dir = root]
                 /\ IF root = ""
                    THEN /\ Raise("FileNotFoundError", <<"Could not find root temp directory">>)
                         /\ UNCHANGED <<status, FAILURES, TEMP_DIRECTORIES, HOMEBREW_BUILDPATH, outputs>>
                    ELSE IF found = {}
                    THEN /\ Raise("FileNotFoundError", <<"Could not find temp directory">>)
                         /\ UNCHANGED <<status, FAILURES, TEMP_DIRECTORIES, HOMEBREW_BUILDPATH, outputs>>
                    ELSE \E tmp_dir \in found :
                         /\ TEMP_DIRECTORIES' = Append(TEMP_DIRECTORIES, tmp_dir)
                         /\ HOMEBREW_BUILDPATH' = tmp_dir
                         /\ set_github_action_output("buildpath", tmp_dir)
                         /\ status' = [status EXCEPT !["install_formula"] = Bool(r.ret)]
                         /\ FAILURES' = AccumulatingStep(r.ret, "install")
                         /\ Goto("test_formula")
    /\ UNCHANGED <<tap_repo_name, env, git, prep, commit, runVars, run>>

\* test_formula, main.py:918-923: the HOMEBREW_BUILDPATH entry of the environment
\* given to `brew test`: the global, replaced by the entry os.environ has when
\* env.update(os.environ) finds one (None: os.environ has none)
test_formula_env(buildpath, environ) == IF environ # None THEN environ ELSE buildpath

\* test_formula, main.py:915-942; main.py:981-983
test_formula ==
    /\ pc = "test_formula"
    /\ invoked' = Append(invoked, "test_formula")
    /\ calls' = <<"brew test">>
    /\ \E environ \in EnvInputs.HOMEBREW_BUILDPATH : Getenv("HOMEBREW_BUILDPATH", environ)
    /\ \E oc \in Outcomes, entries \in KeepTmp(fs.tmp), root \in Range(RootTmpDirs) \cup {""} :
         IF ~oc.spawned
         THEN /\ SpawnFailed
              /\ entries = fs.tmp /\ root = ""
              /\ UNCHANGED <<ERROR, status, FAILURES, fs, TEMP_DIRECTORIES, outputs>>
         ELSE LET r == _run_subprocess(oc.exit_code, FALSE, ERROR)
                  found == find_tmp_dir(Formula, root, entries, TEMP_DIRECTORIES)
              IN /\ RootTmpDirRead(root)
                 /\ ERROR' = r.ERROR
                 /\ fs' = [fs EXCEPT !.tmp = entries, !.root_tmp_dir = root]
                 /\ IF root = ""
                    THEN /\ Raise("FileNotFoundError", <<"Could not find root temp directory">>)
                         /\ UNCHANGED <<status, FAILURES, TEMP_DIRECTORIES, outputs>>
                    ELSE IF found = {}
                    THEN /\ Raise("FileNotFoundError", <<"Could not find temp directory">>)
                         /\ UNCHANGED <<status, FAILURES, TEMP_DIRECTORIES, outputs>>
                    ELSE \E tmp_dir \in found :
                         /\ TEMP_DIRECTORIES' = Append(TEMP_DIRECTORIES, tmp_dir)
                         /\ set_github_action_output("testpath", tmp_dir)
                         /\ status' = [status EXCEPT !["test_formula"] = Bool(r.ret)]
                         /\ FAILURES' = AccumulatingStep(r.ret, "test")
                         /\ Goto("brew_test_bot_only_formulae")
    /\ UNCHANGED <<HOMEBREW_BUILDPATH, tap_repo_name, git, prep, commit, runVars, run>>

\* brew_test_bot_only_formulae, main.py:800-844; main.py:985-987
brew_test_bot_only_formulae ==
    /\ pc = "brew_test_bot_only_formulae"
    /\ invoked' = Append(invoked, "brew_test_bot_only_formulae")
    /\ calls' = <<"brew test-bot --only-formulae">>
    /\ \E oc \in Outcomes :
         IF ~oc.spawned
         THEN SpawnFailed /\ UNCHANGED <<ERROR, status, FAILURES>>
         ELSE LET r == _run_subprocess(oc.exit_code, FALSE, ERROR) IN
              /\ ERROR' = r.ERROR
              /\ status' = [status EXCEPT !["brew_test_bot_only_formulae"] = Bool(r.ret)]
              /\ FAILURES' = AccumulatingStep(r.ret, "formulae")
              /\ Goto("final_check")
    /\ UNCHANGED <<TEMP_DIRECTORIES, HOMEBREW_BUILDPATH, tap_repo_name, env, fs,
                   git, prep, commit, outputs, runVars, run>>

\* main.py:989-995
main_final_check ==
    /\ pc = "final_check"
    /\ IF ERROR
       THEN Raise("SystemExit", <<"1", "Formula did not pass checks", FAILURES>>)
       ELSE Return
    /\ UNCHANGED <<ERROR, FAILURES, TEMP_DIRECTORIES, HOMEBREW_BUILDPATH, tap_repo_name, env, fs,
                   git, prep, commit, invoked, status, calls, outputs, runVars, run>>

Next ==
    \/ main_is_brew_installed
    \/ pif_check_formula_file
    \/ pif_brew_developer_on
    \/ pif_get_tap_name
    \/ pif_brew_tap
    \/ pif_prepare_org
    \/ pif_contribute_check
    \/ pif_prepare_core
    \/ prep_rev_parse
    \/ prep_checkout_new
    \/ prep_checkout_existing
    \/ prep_remote_add
    \/ prep_fetch
    \/ prep_reset
    \/ prep_publish
    \/ pif_tap_dirs
    \/ pif_copy
    \/ pif_extract_version
    \/ pif_commit_next
    \/ pif_is_formula_tracked
    \/ pif_generate_commit_message
    \/ commit_git_config_email
    \/ commit_git_config_name
    \/ commit_git_add
    \/ commit_git_commit
    \/ pif_commit_message_output
    \/ main_validate_check
    \/ brew_upgrade_update
    \/ brew_upgrade_upgrade
    \/ brew_test_bot_only_cleanup_before
    \/ brew_test_bot_only_setup
    \/ audit_formula
    \/ brew_test_bot_only_tap_syntax
    \/ install_formula
    \/ test_formula
    \/ brew_test_bot_only_formulae
    \/ main_final_check

Spec == Init /\ [][Next]_vars

(***************************************************************************)
(* main() entered again in the same process, as the test module does       *)
(* (test_release_homebrew.py:573-777). The module globals of main.py:22-27 *)
(* are whatever the earlier run left; nothing in main.py assigns them at   *)
(* the start of main(). The first run has validation disabled; each later  *)
(* run is given a fresh workspace and a fresh environment with validation  *)
(* enabled.                                                                *)
(***************************************************************************)
main_again ==
    /\ pc = "end"
    /\ run < MaxRuns
    /\ run' = run + 1
    /\ pc' = "is_brew_installed"
    /\ exc' = NoExc
    /\ env' = ("INPUT_VALIDATE" :> S_true)
    /\ fs' = [formula_file |-> [exists |-> TRUE, isfile |-> TRUE, rb |-> TRUE],
              root_tmp_dir |-> "unread", tmp |-> {OtherDir}, copied |-> <<>>]
    /\ git' = [r \in GitRepos |-> FreshRepo]
    /\ prep' = NoPrep
    /\ commit' = NoCommit
    /\ invoked' = <<>>
    /\ status' = [f \in StepFunctions |-> "none"]
    /\ calls' = <<>>
    /\ outputs' = <<>>
    /\ UNCHANGED <<ERROR, FAILURES, TEMP_DIRECTORIES, HOMEBREW_BUILDPATH, tap_repo_name, runVars>>

NextRerun == Next \/ main_again

InitRerun == Init /\ Lower(env["INPUT_VALIDATE"]) # S_true

SpecRerun == InitRerun /\ [][NextRerun]_vars

(***************************************************************************)
(* prepare_repo_branch called directly, several times in a row with the    *)
(* same arguments on the homebrew-core fork, as main.py:620-628 calls it   *)
(* and as test_prepare_repo_branch (test_release_homebrew.py:77-133) does. *)
(* The repository starts on master with or without the target branch and   *)
(* the upstream remote, or on the target branch.                           *)
(***************************************************************************)
PrepGitInputs == {[g EXCEPT !.upstream_remote = b] : g \in GitInputs, b \in BOOLEAN}

PrepInit ==
    /\ pc = "prepare_repo_branch"
    /\ exc = NoExc
    /\ ERROR \in BOOLEAN
    /\ FAILURES = <<>>
    /\ TEMP_DIRECTORIES = <<>>
    /\ HOMEBREW_BUILDPATH = <<>>
    /\ tap_repo_name = <<>>
    /\ env = <<>>
    /\ fs = [formula_file |-> [exists |-> TRUE, isfile |-> TRUE, rb |-> TRUE],
             root_tmp_dir |-> "unread", tmp |-> {OtherDir}, copied |-> <<>>]
    /\ git \in {g \in [GitRepos -> PrepGitInputs] : g["org"] = FreshRepo}
    /\ prep = NoPrep
    /\ commit = NoCommit
    /\ invoked = <<>>
    /\ status = [f \in StepFunctions |-> "none"]
    /\ calls = <<>>
    /\ outputs = <<>>
    /\ RunIdle
    /\ run = 1

\* the call of main.py:620-628: the custom branch variable (main.py:283) and the
\* upstream repository are the same in every call
prepare_repo_branch_call ==
    /\ pc = "prepare_repo_branch"
    /\ Len(invoked) < MaxPrepCalls
    /\ invoked' = Append(invoked, "prepare_repo_branch")
    /\ \E v \in HeadBranchInputs, upstream_repo \in EnvInputs.INPUT_UPSTREAM_HOMEBREW_CORE_REPO :
         /\ IF invoked = <<>>
            THEN env' = [INPUT_HOMEBREW_CORE_HEAD_BRANCH |-> v,
                         INPUT_UPSTREAM_HOMEBREW_CORE_REPO |-> upstream_repo]
            ELSE /\ v = env["INPUT_HOMEBREW_CORE_HEAD_BRANCH"]
                 /\ upstream_repo = env["INPUT_UPSTREAM_HOMEBREW_CORE_REPO"]
                 /\ UNCHANGED env
         /\ prepare_repo_branch_begin("core", v, "homebrew_core_branch", upstream_repo,
                                      "prepare_repo_branch")
    /\ UNCHANGED <<ERROR, FAILURES, TEMP_DIRECTORIES, HOMEBREW_BUILDPATH, tap_repo_name, fs, git,
                   commit, status, calls, outputs, runVars, run>>

PrepNext ==
    \/ prepare_repo_branch_call
    \/ prep_rev_parse
    \/ prep_checkout_new
    \/ prep_checkout_existing
    \/ prep_remote_add
    \/ prep_fetch
    \/ prep_reset
    \/ prep_publish

SpecPrep == PrepInit /\ [][PrepNext]_vars

(***************************************************************************)
(* One call of _run_subprocess, byte by byte: main.py:43-133.              *)
(* The child runs concurrently with the runner; the two kernel pipes hold  *)
(* at most PipeCap bytes each, and a write to a full pipe blocks. The      *)
(* child's output is text the runner can decode.                           *)
(***************************************************************************)
HasNewline(q) == \E i \in 1..Len(q) : q[i].nl
FirstNewline(q) == CHOOSE i \in 1..Len(q) : q[i].nl /\ \A j \in 1..(i - 1) : ~q[j].nl
Min(a, b) == IF a <= b THEN a ELSE b

\* the bytes the child has written to a stream so far, each with its position in
\* the child's output
Written(fd) ==
    LET idx == SelectSeq([i \in 1..(child.pos - 1) |-> i], LAMBDA i : child.prog[i].fd = fd)
    IN [k \in 1..Len(idx) |-> [id |-> idx[k], nl |-> child.prog[idx[k]].nl]]

\* a byte sequence cut after each newline; what follows the last newline is a line too
RECURSIVE Lines(_)
Lines(q) ==
    IF q = <<>> THEN <<>>
    ELSE IF HasNewline(q)
         THEN <<SubSeq(q, 1, FirstNewline(q))>> \o Lines(SubSeq(q, FirstNewline(q) + 1, Len(q)))
         ELSE <<q>>

\* the write end of a pipe is closed once the child has exited
AtEOF(fd) == child.state = "exited" /\ pipe[fd] = <<>>

RunInit ==
    /\ pc = "_run_subprocess"
    /\ exc = NoExc
    /\ ERROR \in BOOLEAN
    /\ FAILURES = <<>>
    /\ TEMP_DIRECTORIES = <<>>
    /\ HOMEBREW_BUILDPATH = <<>>
    /\ tap_repo_name = <<>>
    /\ env = <<>>
    /\ fs = [formula_file |-> [exists |-> TRUE, isfile |-> TRUE, rb |-> TRUE],
             root_tmp_dir |-> "unread", tmp |-> {OtherDir}, copied |-> <<>>]
    /\ git = [r \in GitRepos |-> FreshRepo]
    /\ prep = NoPrep
    /\ commit = NoCommit
    /\ invoked = <<>>
    /\ status = [f \in StepFunctions |-> "none"]
    /\ calls = <<>>
    /\ outputs = <<>>
    /\ child = NoChild
    /\ pipe = [fd \in Range(Streams) |-> <<>>]
    /\ \E ignore_error \in BOOLEAN :
         rd = [NoRun EXCEPT !.pc = "_setup_process", !.ignore_error = ignore_error,
                            !.og_error = ERROR]
    /\ printed = [fd \in Range(Streams) |-> <<>>]
    /\ run = 1

RunFrame == UNCHANGED <<pc, FAILURES, TEMP_DIRECTORIES, HOMEBREW_BUILDPATH, tap_repo_name,
                        env, fs, git, prep, commit, invoked, status, calls, outputs, run>>

\* _setup_process, main.py:93-110: with a cwd argument the process first changes
\* into it, which raises when the directory is not there; Popen starts the child,
\* or raises; either way the finally clause then changes into og_dir
_setup_process ==
    /\ rd.pc = "_setup_process"
    /\ IF rd.cwd_arg = "missing"
       THEN /\ rd' = [rd EXCEPT !.pc = "raised"]
            /\ exc' = [type |-> "FileNotFoundError", args |-> <<>>]
            /\ UNCHANGED child
       ELSE LET after == IF rd.cwd_arg # "None" THEN "og_dir" ELSE rd.cwd IN
            \E oc \in {TRUE, FALSE} :
              IF oc
              THEN /\ \E prog \in Progs : child' = [NoChild EXCEPT !.prog = prog, !.state = "running"]
                   /\ rd' = [rd EXCEPT !.pc = "select", !.cwd = after]
                   /\ UNCHANGED exc
              ELSE /\ rd' = [rd EXCEPT !.pc = "raised", !.cwd = after]
                   /\ exc' = [type |-> "OSError", args |-> <<>>]
                   /\ UNCHANGED child
    /\ UNCHANGED <<ERROR, pipe, printed>>
    /\ RunFrame

\* the child writes its next byte; it blocks while the pipe is full
child_write ==
    /\ child.state = "running"
    /\ child.pos <= Len(child.prog)
    /\ LET w == child.prog[child.pos] IN
       /\ Len(pipe[w.fd]) < PipeCap
       /\ pipe' = [pipe EXCEPT ![w.fd] = Append(@, [id |-> child.pos, nl |-> w.nl])]
       /\ child' = [child EXCEPT !.pos = @ + 1]
    /\ UNCHANGED <<ERROR, exc, rd, printed>>
    /\ RunFrame

\* the child has written everything and exits with some status
child_exit ==
    /\ child.state = "running"
    /\ child.pos > Len(child.prog)
    /\ \E c \in ExitCodes : child' = [child EXCEPT !.state = "exited", !.exit_code = c]
    /\ UNCHANGED <<ERROR, exc, pipe, rd, printed>>
    /\ RunFrame

\* main.py:56-57: select returns the descriptors that have bytes or are at end of
\* file, in the order of `reads`; it sees the pipes, not the readers' buffers
handle_select ==
    /\ rd.pc = "select"
    /\ LET ready == SelectSeq(Streams, LAMBDA fd : pipe[fd] # <<>> \/ AtEOF(fd)) IN
       /\ ready # <<>>
       /\ rd' = [rd EXCEPT !.pc = "for_fd", !.todo = ready]
    /\ UNCHANGED <<ERROR, exc, child, pipe, printed>>
    /\ RunFrame

\* the stream the runner's current readline() reads
ReadlineFd ==
    IF rd.pc = "for_fd" THEN Head(rd.todo)
    ELSE IF rd.pc = "drain_stdout" THEN "stdout"
    ELSE "stderr"

\* BufferedReader.readline() (main.py:48, 73, 80) with no newline buffered: one raw
\* read takes what the pipe holds, up to BufSize bytes
readline_fill ==
    /\ rd.pc \in {"for_fd", "drain_stdout", "drain_stderr"}
    /\ LET fd == ReadlineFd
           n == Min(Len(pipe[fd]), BufSize)
       IN /\ ~HasNewline(rd.buf[fd])
          /\ pipe[fd] # <<>>
          /\ rd' = [rd EXCEPT !.buf[fd] = @ \o SubSeq(pipe[fd], 1, n)]
          /\ pipe' = [pipe EXCEPT ![fd] = SubSeq(@, n + 1, Len(@))]
    /\ UNCHANGED <<ERROR, exc, child, printed>>
    /\ RunFrame

\* readline() can return: a newline is buffered, or the stream is at end of file
ReadlineReady(fd) == HasNewline(rd.buf[fd]) \/ AtEOF(fd)

\* what readline() returns: through the first newline, or at end of file the rest
Readline(fd) ==
    IF HasNewline(rd.buf[fd]) THEN SubSeq(rd.buf[fd], 1, FirstNewline(rd.buf[fd]))
    ELSE rd.buf[fd]

\* `if line: print(line.decode(...), end='')`, main.py:49-50, 74-76, 81-83
PrintLine(fd, line) == IF line # <<>> THEN [printed EXCEPT ![fd] = Append(@, line)] ELSE printed

\* _read_and_print_output for the next descriptor of ret[0], main.py:59-63 and 43-50
_read_and_print_output ==
    /\ rd.pc = "for_fd"
    /\ LET fd == Head(rd.todo)
           line == Readline(fd)
       IN /\ ReadlineReady(fd)
          /\ printed' = PrintLine(fd, line)
          /\ rd' = [rd EXCEPT !.buf[fd] = SubSeq(@, Len(line) + 1, Len(@)),
                              !.todo = Tail(@),
                              !.pc = IF Tail(rd.todo) = <<>> THEN "poll" ELSE "for_fd"]
    /\ UNCHANGED <<ERROR, exc, child, pipe>>
    /\ RunFrame

\* main.py:65-66: leave the loop once the child has terminated
handle_poll ==
    /\ rd.pc = "poll"
    /\ rd' = [rd EXCEPT !.pc = IF child.state = "exited" THEN "drain_stdout" ELSE "select"]
    /\ UNCHANGED <<ERROR, exc, child, pipe, printed>>
    /\ RunFrame

\* one turn of a loop of _drain_remaining_output: stop at an empty line
DrainLine(fd, next) ==
    LET line == Readline(fd) IN
    /\ ReadlineReady(fd)
    /\ printed' = PrintLine(fd, line)
    /\ rd' = [rd EXCEPT !.buf[fd] = SubSeq(@, Len(line) + 1, Len(@)),
                        !.drained = IF line # <<>> THEN Min(@ + 1, MaxBytes) ELSE @,
                        !.pc = IF line = <<>> THEN next ELSE rd.pc]

\* _drain_remaining_output, main.py:71-76
drain_stdout ==
    /\ rd.pc = "drain_stdout"
    /\ DrainLine("stdout", "drain_stderr")
    /\ UNCHANGED <<ERROR, exc, child, pipe>>
    /\ RunFrame

\* Variant: the second loop of _drain_remaining_output is left out.
drain_stderr_skipped ==
    /\ rd.pc = "drain_stderr"
    /\ rd' = [rd EXCEPT !.pc = "_cleanup_process"]
    /\ UNCHANGED <<ERROR, exc, child, pipe, printed>>
    /\ RunFrame

\* _drain_remaining_output, main.py:78-83
drain_stderr ==
    /\ rd.pc = "drain_stderr"
    /\ DrainLine("stderr", "_cleanup_process")
    /\ UNCHANGED <<ERROR, exc, child, pipe>>
    /\ RunFrame

\* _cleanup_process (main.py:86-90) and the end of _run_subprocess (main.py:123-133)
run_subprocess_result ==
    /\ rd.pc = "_cleanup_process"
    /\ child.state = "exited"
    /\ LET r == _run_subprocess(child.exit_code, rd.ignore_error, ERROR) IN
       /\ ERROR' = r.ERROR
       /\ rd' = [rd EXCEPT !.pc = "done", !.ret = Bool(r.ret)]
    /\ UNCHANGED <<exc, child, pipe, printed>>
    /\ RunFrame

RunNext ==
    \/ _setup_process
    \/ child_write
    \/ child_exit
    \/ handle_select
    \/ readline_fill
    \/ _read_and_print_output
    \/ handle_poll
    \/ drain_stdout
    \/ drain_stderr
    \/ run_subprocess_result

SpecRun == RunInit /\ [][RunNext]_vars

(***************************************************************************)
(* One call of _run_subprocess from a process whose working directory need *)
(* not be the one main.py was imported in, with and without a cwd argument. *)
(***************************************************************************)
Dirs == {"og_dir", "repo"}
CwdArgs == {"None", "repo", "missing"}

CwdInit ==
    /\ pc = "_run_subprocess"
    /\ exc = NoExc
    /\ ERROR = FALSE
    /\ FAILURES = <<>>
    /\ TEMP_DIRECTORIES = <<>>
    /\ HOMEBREW_BUILDPATH = <<>>
    /\ tap_repo_name = <<>>
    /\ env = <<>>
    /\ fs = [formula_file |-> [exists |-> TRUE, isfile |-> TRUE, rb |-> TRUE],
             root_tmp_dir |-> "unread", tmp |-> {OtherDir}, copied |-> <<>>]
    /\ git = [r \in GitRepos |-> FreshRepo]
    /\ prep = NoPrep
    /\ commit = NoCommit
    /\ invoked = <<>>
    /\ status = [f \in StepFunctions |-> "none"]
    /\ calls = <<>>
    /\ outputs = <<>>
    /\ child = NoChild
    /\ pipe = [fd \in Range(Streams) |-> <<>>]
    /\ \E d \in Dirs, a \in CwdArgs :
         rd = [NoRun EXCEPT !.pc = "_setup_process", !.cwd = d, !.cwd_before = d, !.cwd_arg = a]
    /\ printed = [fd \in Range(Streams) |-> <<>>]
    /\ run = 1

SpecCwd == CwdInit /\ [][RunNext]_vars

(***************************************************************************)
(* extract_version_from_formula, main.py:363-412, on the lines of a formula *)
(* file.                                                                    *)
(***************************************************************************)
MaxLines == 4

\* str.find(ch, from) counted from 1: the first position >= from holding ch, 0 for
\* Python's -1
Find(s, ch, from) ==
    IF \E j \in from..Len(s) : s[j] = ch
    THEN CHOOSE j \in from..Len(s) : s[j] = ch /\ \A k \in from..(j - 1) : s[k] # ch
    ELSE 0

\* main.py:397-401 and 405-409: the text between the first two double quotes of
\* the line, None when there are not two
Quoted(line) ==
    LET start == Find(line, "\"", 1)
        end == IF start = 0 THEN 0 ELSE Find(line, "\"", start + 1)
    IN IF start # 0 /\ end # 0 THEN SubSeq(line, start + 1, end - 1) ELSE None

\* Variant: every tag: line with a quoted value replaces the one before it.
RECURSIVE ScanLinesLastTag(_, _, _, _)
ScanLinesLastTag(lines, i, version, tag_found) ==
    IF i > Len(lines) THEN version
    ELSE LET line == lines[i]
             stripped == Strip(line)
         IN IF /\ StartsWith(line, <<" "," ">>)
               /\ ~StartsWith(line, <<" "," "," "," ">>)
               /\ StartsWith(stripped, <<"v","e","r","s","i","o","n">>)
               /\ Find(line, "\"", 1) # 0
            THEN IF Quoted(line) # None THEN Quoted(line)
                 ELSE ScanLinesLastTag(lines, i + 1, version, tag_found)
            ELSE IF /\ StartsWith(stripped, <<"t","a","g",":">>)
                    /\ Find(line, "\"", 1) # 0
            THEN IF Quoted(line) # None THEN ScanLinesLastTag(lines, i + 1, Quoted(line), TRUE)
                 ELSE ScanLinesLastTag(lines, i + 1, version, tag_found)
            ELSE ScanLinesLastTag(lines, i + 1, version, tag_found)

\* main.py:383-410, the loop over the lines from line i on
RECURSIVE ScanLines(_, _, _, _)
ScanLines(lines, i, version, tag_found) ==
    IF i > Len(lines) THEN version
    ELSE LET line == lines[i]
             stripped == Strip(line)
         IN IF /\ StartsWith(line, <<" "," ">>)
               /\ ~StartsWith(line, <<" "," "," "," ">>)
               /\ StartsWith(stripped, <<"v","e","r","s","i","o","n">>)
               /\ Find(line, "\"", 1) # 0
            THEN IF Quoted(line) # None THEN Quoted(line)
                 ELSE ScanLines(lines, i + 1, version, tag_found)
            ELSE IF /\ ~tag_found /\ version = None
                    /\ StartsWith(stripped, <<"t","a","g",":">>)
                    /\ Find(line, "\"", 1) # 0
            THEN IF Quoted(line) # None THEN ScanLines(lines, i + 1, Quoted(line), TRUE)
                 ELSE ScanLines(lines, i + 1, version, tag_found)
            ELSE ScanLines(lines, i + 1, version, tag_found)

Reverse(q) == [i \in 1..Len(q) |-> q[Len(q) + 1 - i]]

\* Variant: the last version line wins.
extract_version_from_formula_last(readable, lines) ==
    IF readable THEN ScanLines(Reverse(lines), 1, None, FALSE) ELSE None

\* main.py:379-412: None when the file cannot be opened
extract_version_from_formula(readable, lines) ==
    IF readable THEN ScanLines(lines, 1, None, FALSE) ELSE None

\* lines of formula files
L_version_1 == <<" "," ","v","e","r","s","i","o","n"," ","\"","1","\"">>
L_version_2 == <<" "," ","v","e","r","s","i","o","n"," ","\"","2","\"">>
L_nested_version == <<" "," "," "," ","v","e","r","s","i","o","n"," ","\"","9","\"">>
L_version_scheme == <<" "," ","v","e","r","s","i","o","n","_","s","c","h","e","m","e"," ","1">>
L_tag_3 == <<" "," "," "," ","t","a","g",":"," ","\"","v","3","\"">>
L_tag_5 == <<" "," ","t","a","g",":"," ","\"","v","5","\"">>
L_version_open == <<" "," ","v","e","r","s","i","o","n"," ","\"","4">>
L_desc == <<" "," ","d","e","s","c"," ","\"","d","\"">>
L_tag_open == <<" "," "," "," ","t","a","g",":"," ","\"","v">>
FormulaLines == {L_version_1, L_version_2, L_nested_version, L_version_scheme,
                 L_tag_3, L_tag_5, L_version_open, L_desc, L_tag_open}
FormulaFiles == UNION {[1..n -> FormulaLines] : n \in 0..MaxLines}

\* one call of extract_version_from_formula, main.py:664, on a file of FormulaFiles
VersionInit ==
    /\ pc = "extract_version"
    /\ exc = NoExc
    /\ ERROR = FALSE
    /\ FAILURES = <<>>
    /\ TEMP_DIRECTORIES = <<>>
    /\ HOMEBREW_BUILDPATH = <<>>
    /\ tap_repo_name = <<>>
    /\ env = <<>>
    /\ \E readable \in BOOLEAN, lines \in FormulaFiles :
         fs = [formula_file |-> [exists |-> readable, isfile |-> readable, rb |-> TRUE],
               lines |-> lines,
               root_tmp_dir |-> "unread", tmp |-> {OtherDir}, copied |-> <<>>]
    /\ git = [r \in GitRepos |-> FreshRepo]
    /\ prep = NoPrep
    /\ commit = NoCommit
    /\ invoked = <<>>
    /\ status = [f \in StepFunctions |-> "none"]
    /\ calls = <<>>
    /\ outputs = <<>>
    /\ RunIdle
    /\ run = 1

\* Variant: the failure to open the file is not caught.
extract_version_call_raises ==
    /\ pc = "extract_version"
    /\ IF fs.formula_file.exists
       THEN /\ commit' = [commit EXCEPT !.version = extract_version_from_formula(TRUE, fs.lines)]
            /\ pc' = "end" /\ UNCHANGED exc
       ELSE Raise("FileNotFoundError", <<>>) /\ UNCHANGED commit
    /\ UNCHANGED <<ERROR, FAILURES, TEMP_DIRECTORIES, HOMEBREW_BUILDPATH, tap_repo_name, env,
                   fs, git, prep, invoked, status, calls, outputs, runVars, run>>

\* main.py:664 with 379-412: the call, and the line that the except clause of
\* main.py:410-411 prints when the file cannot be opened. A read that fails after
\* the file was opened is not followed here.
extract_version_call ==
    /\ pc = "extract_version"
    /\ commit' = [commit EXCEPT
                    !.version = extract_version_from_formula(fs.formula_file.exists, fs.lines)]
    /\ printed' = IF fs.formula_file.exists THEN printed
                  ELSE [printed EXCEPT !["stdout"] =
                           Append(@, "Could not extract version from formula")]
    /\ pc' = "end"
    /\ UNCHANGED <<exc, ERROR, FAILURES, TEMP_DIRECTORIES, HOMEBREW_BUILDPATH, tap_repo_name, env,
                   fs, git, prep, invoked, status, calls, outputs, child, pipe, rd, run>>

VersionNext == extract_version_call
SpecVersion == VersionInit /\ [][VersionNext]_vars

(***************************************************************************)
(* find_tmp_dir, main.py:847-877, called up to MaxFindCalls times in one    *)
(* process, with brew children leaving new directories between the calls.   *)
(***************************************************************************)
MaxFindCalls == 3

TmpInit ==
    /\ pc = "find_tmp_dir"
    /\ exc = NoExc
    /\ ERROR = FALSE
    /\ FAILURES = <<>>
    /\ TEMP_DIRECTORIES = <<>>
    /\ HOMEBREW_BUILDPATH = <<>>
    /\ tap_repo_name = <<>>
    /\ env = <<>>
    /\ \E isdir \in SUBSET Range(RootTmpDirs), entries \in KeepTmp({OtherDir}) :
         fs = [formula_file |-> [exists |-> TRUE, isfile |-> TRUE, rb |-> TRUE],
               isdir |-> isdir, root_tmp_dir |-> "unread", tmp |-> entries, copied |-> <<>>]
    /\ git = [r \in GitRepos |-> FreshRepo]
    /\ prep = NoPrep
    /\ commit = NoCommit
    /\ invoked = <<>>
    /\ status = [f \in StepFunctions |-> "none"]
    /\ calls = <<>>
    /\ outputs = <<>>
    /\ RunIdle
    /\ run = 1

\* one call, main.py:847-877; calls holds what the calls so far returned, exc what
\* the last call raised
find_tmp_dir_call ==
    /\ pc = "find_tmp_dir"
    /\ Len(invoked) < MaxFindCalls
    /\ invoked' = Append(invoked, "find_tmp_dir")
    /\ LET root == root_tmp_dir(fs.isdir)
           found == find_tmp_dir(Formula, root, fs.tmp, TEMP_DIRECTORIES)
       IN IF root = ""
          THEN /\ exc' = [type |-> "FileNotFoundError", args |-> <<"Could not find root temp directory">>]
               /\ UNCHANGED <<TEMP_DIRECTORIES, calls>>
          ELSE IF found = {}
          THEN /\ exc' = [type |-> "FileNotFoundError", args |-> <<"Could not find temp directory">>]
               /\ UNCHANGED <<TEMP_DIRECTORIES, calls>>
          ELSE \E tmp_dir \in found :
               /\ TEMP_DIRECTORIES' = Append(TEMP_DIRECTORIES, tmp_dir)
               /\ calls' = Append(calls, tmp_dir)
               /\ exc' = NoExc
    /\ UNCHANGED <<pc, ERROR, FAILURES, HOMEBREW_BUILDPATH, tap_repo_name, env, fs, git, prep,
                   commit, status, outputs, runVars, run>>

\* a brew child run with --keep-tmp between two calls, main.py:888-896 and 926-933
keep_tmp ==
    /\ pc = "find_tmp_dir"
    /\ \E entries \in KeepTmp(fs.tmp) \ {fs.tmp} : fs' = [fs EXCEPT !.tmp = entries]
    /\ UNCHANGED <<pc, exc, ERROR, FAILURES, TEMP_DIRECTORIES, HOMEBREW_BUILDPATH, tap_repo_name,
                   env, git, prep, commit, invoked, status, calls, outputs, runVars, run>>

TmpNext == find_tmp_dir_call \/ keep_tmp
SpecTmp == TmpInit /\ [][TmpNext]_vars

(***************************************************************************)
(* _get_tap_name_from_repo, main.py:506-538, on its own. The input is made  *)
(* of up to MaxParts segments joined by '/'.                                *)
(***************************************************************************)
MaxParts == 3
Segments == {<<"O","w">>, <<"L","i","z","a","r","d","B","y","t","e">>,
             <<"l","i","z","a","r","d","b","y","t","e">>,
             <<"h","o","m","e","b","r","e","w","-","t","a","p">>,
             <<"a","c","t","i","o","n","s">>, <<"b","a","d">>, <<>>}

RECURSIVE Join(_, _)
Join(parts, sep) ==
    IF Len(parts) = 0 THEN <<>>
    ELSE IF Len(parts) = 1 THEN parts[1]
    ELSE parts[1] \o <<sep>> \o Join(Tail(parts), sep)

TapInit ==
    /\ pc = "_get_tap_name_from_repo"
    /\ exc = NoExc
    /\ ERROR = FALSE
    /\ FAILURES = <<>>
    /\ TEMP_DIRECTORIES = <<>>
    /\ HOMEBREW_BUILDPATH = <<>>
    /\ tap_repo_name = <<>>
    /\ \E n \in 1..MaxParts : \E parts \in [1..n -> Segments] :
         /\ env = [INPUT_ORG_HOMEBREW_REPO |-> Join(parts, "/")]
         /\ commit = [parts |-> parts, ret |-> None]
    /\ fs = [formula_file |-> [exists |-> TRUE, isfile |-> TRUE, rb |-> TRUE],
             root_tmp_dir |-> "unread", tmp |-> {OtherDir}, copied |-> <<>>]
    /\ git = [r \in GitRepos |-> FreshRepo]
    /\ prep = NoPrep
    /\ invoked = <<>>
    /\ status = [f \in StepFunctions |-> "none"]
    /\ calls = <<>>
    /\ outputs = <<>>
    /\ RunIdle
    /\ run = 1

\* main.py:576-577, the call: it returns (owner, tap_name) or raises
get_tap_name_from_repo_call ==
    /\ pc = "_get_tap_name_from_repo"
    /\ LET t == _get_tap_name_from_repo(env.INPUT_ORG_HOMEBREW_REPO) IN
       IF t[1] = "ValueError"
       THEN Raise("ValueError", <<t[2], env.INPUT_ORG_HOMEBREW_REPO>>) /\ UNCHANGED commit
       ELSE /\ commit' = [commit EXCEPT !.ret = <<t[2], t[3]>>]
            /\ pc' = "end" /\ UNCHANGED exc
    /\ UNCHANGED <<ERROR, FAILURES, TEMP_DIRECTORIES, HOMEBREW_BUILDPATH, tap_repo_name, env,
                   fs, git, prep, invoked, status, calls, outputs, runVars, run>>

TapNext == get_tap_name_from_repo_call
SpecTap == TapInit /\ [][TapNext]_vars

(***************************************************************************)
(* generate_commit_message, main.py:415-444, on its own.                    *)
(***************************************************************************)
FormulaNames == {<<"h","w">>, <<"m","y","_","a","p","p">>, <<"f">>, <<"h","e","l","l","o","_","w","o","r","l","d">>}
MessageVersions == {None, <<>>, <<"1",".","2">>, <<"v","2">>, <<"3">>, <<"1",".","2",".","3">>, <<"0">>}

MessageInit ==
    /\ pc = "generate_commit_message"
    /\ exc = NoExc
    /\ ERROR \in BOOLEAN
    /\ FAILURES = <<>>
    /\ TEMP_DIRECTORIES = <<>>
    /\ HOMEBREW_BUILDPATH = <<>>
    /\ tap_repo_name = <<>>
    /\ env = <<>>
    /\ fs = [formula_file |-> [exists |-> TRUE, isfile |-> TRUE, rb |-> TRUE],
             root_tmp_dir |-> "unread", tmp |-> {OtherDir}, copied |-> <<>>]
    /\ git = [r \in GitRepos |-> FreshRepo]
    /\ prep = NoPrep
    /\ \E formula \in FormulaNames, version \in MessageVersions, is_new \in BOOLEAN :
         commit = [formula |-> formula, version |-> version, is_new |-> is_new,
                   message |-> None]
    /\ invoked = <<>>
    /\ status = [f \in StepFunctions |-> "none"]
    /\ calls = <<>>
    /\ outputs = <<>>
    /\ RunIdle
    /\ run = 1

\* main.py:674, the call
generate_commit_message_call ==
    /\ pc = "generate_commit_message"
    /\ commit' = [commit EXCEPT
                    !.message = generate_commit_message(commit.formula, commit.version, commit.is_new)]
    /\ pc' = "end"
    /\ UNCHANGED <<exc, ERROR, FAILURES, TEMP_DIRECTORIES, HOMEBREW_BUILDPATH, tap_repo_name, env,
                   fs, git, prep, invoked, status, calls, outputs, runVars, run>>

MessageNext == generate_commit_message_call
SpecMessage == MessageInit /\ [][MessageNext]_vars

\* The same call on files whose version lines differ in their indentation: the line
\* with n leading blanks holds the value n.
MaxIndent == 5
Blanks(n) == [i \in 1..n |-> " "]
IndentValue(n) == <<(<<"0","1","2","3","4","5","6","7","8","9">>)[n + 1]>>
VersionLineAt(n) ==
    Blanks(n) \o <<"v","e","r","s","i","o","n"," ","\"">> \o IndentValue(n) \o <<"\"">>
IndentLines == {VersionLineAt(n) : n \in 0..MaxIndent} \cup {L_tag_3}
IndentFiles == UNION {[1..n -> IndentLines] : n \in 0..MaxLines}

IndentInit ==
    /\ pc = "extract_version"
    /\ exc = NoExc
    /\ ERROR = FALSE
    /\ FAILURES = <<>>
    /\ TEMP_DIRECTORIES = <<>>
    /\ HOMEBREW_BUILDPATH = <<>>
    /\ tap_repo_name = <<>>
    /\ env = <<>>
    /\ \E lines \in IndentFiles :
         fs = [formula_file |-> [exists |-> TRUE, isfile |-> TRUE, rb |-> TRUE],
               lines |-> lines,
               root_tmp_dir |-> "unread", tmp |-> {OtherDir}, copied |-> <<>>]
    /\ git = [r \in GitRepos |-> FreshRepo]
    /\ prep = NoPrep
    /\ commit = NoCommit
    /\ invoked = <<>>
    /\ status = [f \in StepFunctions |-> "none"]
    /\ calls = <<>>
    /\ outputs = <<>>
    /\ RunIdle
    /\ run = 1

SpecIndent == IndentInit /\ [][VersionNext]_vars

(***************************************************************************)
(* Properties of main(), checked under Spec.                               *)
(***************************************************************************)
Last(q) == q[Len(q)]
Ended == pc = "end"
ValidationSteps == Range(FatalSteps) \cup Range(AccumulatingSteps)

\* C1: when the brew availability check, brew_upgrade, cleanup-before or setup reports
\* failure, the run has ended there with SystemExit: the failed step is the last step
\* invoked and FAILURES has nothing in it.
C1_FatalStepAborts ==
    \A s \in {"is_brew_installed"} \cup Range(FatalSteps) :
        status[s] = "False" =>
            /\ Ended
            /\ exc.type = "SystemExit"
            /\ exc.args[1] = "1"
            /\ Last(invoked) = s
            /\ FAILURES = <<>>

\* C1 witness: the setup step, the last fatal one, failed and ended the run
C1_Witness ==
    /\ Ended
    /\ status["brew_test_bot_only_setup"] = "False"
    /\ exc.type = "SystemExit"

\* C2: a run with validation enabled whose fatal steps succeeded, and in which every
\* child could be launched, does not end before all five accumulating steps were
\* invoked in the order audit, tap-syntax, install, test, formulae.
C2_AllAccumulatingStepsRun ==
    (Ended /\ status["brew_test_bot_only_setup"] = "True" /\ exc.type # "OSError") =>
        /\ Len(invoked) >= Len(AccumulatingSteps)
        /\ SubSeq(invoked, Len(invoked) - Len(AccumulatingSteps) + 1, Len(invoked)) = AccumulatingSteps

\* the name main() appends to FAILURES for an accumulating step, main.py:969-987
FailureName ==
    [audit_formula |-> "audit", brew_test_bot_only_tap_syntax |-> "tap-syntax",
     install_formula |-> "install", test_formula |-> "test",
     brew_test_bot_only_formulae |-> "formulae"]

\* the names of the accumulating steps that returned False, in the fixed order
FailedAccumulatingSteps ==
    LET failed == SelectSeq(AccumulatingSteps, LAMBDA s : status[s] = "False")
    IN [i \in 1..Len(failed) |-> FailureName[failed[i]]]

\* C3: once the last accumulating step has returned, FAILURES is exactly the names of
\* the accumulating steps that returned False in this run, each once, in the order
\* audit, tap-syntax, install, test, formulae.
C3_FailuresListFailedSteps ==
    status["brew_test_bot_only_formulae"] # "none" => FAILURES = FailedAccumulatingSteps

\* C3 witness: the accumulating phase ended with only audit and install failed
C3_Witness ==
    /\ pc = "final_check"
    /\ FAILURES = <<"audit", "install">>

\* C4: a run in which an accumulating step failed, and in which every child could be
\* launched, ends only after the last accumulating step has run, with a SystemExit
\* that carries the whole of FAILURES.
C4_FailuresEndInSystemExit ==
    (Ended /\ FAILURES # <<>> /\ exc.type # "OSError") =>
        /\ status["brew_test_bot_only_formulae"] # "none"
        /\ exc.type = "SystemExit"
        /\ exc.args = <<"1", "Formula did not pass checks", FAILURES>>

\* C5: the SystemExit of the final check of main() is raised only with a non-empty
\* FAILURES; with FAILURES empty after the last accumulating step main() returns.
C5_FinalExitOnlyWithFailures ==
    (Ended /\ status["brew_test_bot_only_formulae"] # "none" /\ FAILURES = <<>>) =>
        exc.type = "returned"

\* validation is disabled: INPUT_VALIDATE, lower-cased, is not 'true' (main.py:952)
ValidationDisabled == Lower(env["INPUT_VALIDATE"]) # S_true

\* C6 as stated: with validation disabled no validation step is invoked, FAILURES stays
\* empty and the run never ends with SystemExit.
C6_DisabledNeverSystemExit ==
    ValidationDisabled =>
        /\ Range(invoked) \cap ValidationSteps = {}
        /\ FAILURES = <<>>
        /\ exc.type # "SystemExit"

\* C6 amended: with validation disabled no validation step is invoked and FAILURES stays
\* empty; when the brew availability check succeeded and process_input_formula returned,
\* main() returns normally, even with ERROR set; a SystemExit comes only from the brew
\* availability check or from branch preparation.
C6_DisabledSkipsValidation ==
    ValidationDisabled =>
        /\ Range(invoked) \cap ValidationSteps = {}
        /\ FAILURES = <<>>
        /\ (Ended /\ status["process_input_formula"] = "returned") => exc.type = "returned"
        /\ exc.type = "SystemExit" =>
               /\ Len(exc.args) >= 2
               /\ exc.args[2] \in {"Homebrew is not installed", "Failed to create or checkout branch"}

\* C6 witness: validation disabled, process_input_formula returned with ERROR set, and
\* main() returned normally after the two steps
C6_Witness ==
    /\ ValidationDisabled
    /\ Ended
    /\ exc.type = "returned"
    /\ invoked = <<"is_brew_installed", "process_input_formula">>
    /\ ERROR

(***************************************************************************)
(* Properties of _run_subprocess, checked under SpecRun.                   *)
(***************************************************************************)
Returned == rd.pc = "done"

\* C7: a child that exits non-zero does not make _run_subprocess raise; without
\* ignore_error the call returns False and leaves ERROR True, with ignore_error it
\* returns True and leaves ERROR as it was before the call.
C7_NonZeroExit ==
    (child.state = "exited" /\ child.exit_code # 0) =>
        /\ exc = NoExc
        /\ rd.pc # "raised"
        /\ Returned =>
              IF rd.ignore_error
              THEN rd.ret = "True" /\ ERROR = rd.og_error
              ELSE rd.ret = "False" /\ ERROR = TRUE

\* C7 witness: a call with ignore_error and ERROR set before it returned after a
\* non-zero exit
C7_Witness ==
    /\ Returned
    /\ child.exit_code # 0
    /\ rd.ignore_error
    /\ rd.og_error

\* C8: after a child that exits 0, _run_subprocess returns True and ERROR has the
\* value it had before the call.
C8_ZeroExit ==
    (Returned /\ child.exit_code = 0) =>
        /\ rd.ret = "True"
        /\ ERROR = rd.og_error

\* C8 witness: a call without ignore_error, entered with ERROR set, returned after exit 0
C8_Witness ==
    /\ Returned
    /\ child.exit_code = 0
    /\ ~rd.ignore_error
    /\ rd.og_error

\* the child is blocked in a write to a full pipe
ChildBlockedOn(fd) ==
    /\ child.state = "running"
    /\ child.pos <= Len(child.prog)
    /\ child.prog[child.pos].fd = fd
    /\ Len(pipe[fd]) >= PipeCap

\* the runner is blocked in readline(): no newline buffered, nothing in the pipe, and
\* the write end still open
RunnerBlockedOn(fd) ==
    /\ rd.pc \in {"for_fd", "drain_stdout", "drain_stderr"}
    /\ ReadlineFd = fd
    /\ ~HasNewline(rd.buf[fd])
    /\ pipe[fd] = <<>>
    /\ child.state # "exited"

\* C9: the child is never blocked writing to one full pipe while the runner is blocked
\* reading the other.
C9_NoCrossBlock ==
    \A a, b \in Range(Streams) : a # b => ~(ChildBlockedOn(a) /\ RunnerBlockedOn(b))

\* C10: when _run_subprocess has returned, what was printed for each stream is exactly
\* the lines the child wrote to it, each once and in the order written.
C10_AllLinesPrinted ==
    Returned => \A fd \in Range(Streams) : printed[fd] = Lines(Written(fd))

\* C10 witness: the call returned, the child had written to both streams, and lines
\* were still in the pipes when the child was seen to have terminated
C10_Witness ==
    /\ Returned
    /\ rd.drained > 0
    /\ \A fd \in Range(Streams) : printed[fd] # <<>>

(***************************************************************************)
(* Properties of the pipeline state and of prepare_repo_branch.            *)
(***************************************************************************)
IsPrefix(a, b) == Len(a) <= Len(b) /\ SubSeq(b, 1, Len(a)) = a

\* C11 as stated: in every step of a main() run ERROR does not go from True to False
\* and FAILURES only grows.
C11_Monotonic ==
    [][(ERROR => ERROR') /\ IsPrefix(FAILURES, FAILURES')]_vars

\* C11 amended: FAILURES only grows, and ERROR goes from True to False only in
\* prepare_repo_branch, when `git checkout <branch>` succeeds after `git checkout -b`
\* failed and ERROR was False when the call began; the run goes on after it.
C11_MonotonicButRestore ==
    [][/\ IsPrefix(FAILURES, FAILURES')
       /\ (ERROR /\ ~ERROR') =>
             /\ pc = "prep_checkout_existing"
             /\ ~prep.og_error
             /\ pc' = AfterCheckout]_vars

\* C11 witness: prepare_repo_branch has put ERROR back to False after the failed
\* `git checkout -b` and the successful `git checkout`
C11_Witness ==
    /\ pc \in {"prep_remote_add", "prep_publish"}
    /\ prep.calls = <<"git rev-parse --abbrev-ref HEAD", "git checkout -b", "git checkout">>
    /\ ~ERROR

\* C12: every run of main() after the first in a process begins its steps with ERROR
\* False and FAILURES empty.
C12_RunStartsClean ==
    (run > 1 /\ pc = "is_brew_installed") => (ERROR = FALSE /\ FAILURES = <<>>)

(***************************************************************************)
(* Properties of prepare_repo_branch, checked under SpecPrep.              *)
(***************************************************************************)
\* the n-th call of prepare_repo_branch is running
InCall(n) == Len(invoked) = n /\ pc # "prepare_repo_branch" /\ pc # "end"

\* n calls of prepare_repo_branch have returned
ReturnedCalls(n) == Len(invoked) = n /\ pc = "prepare_repo_branch" /\ Len(outputs) = n

\* C13: after two calls in a row with the same arguments the same branch name was
\* returned both times and the repository is on that branch; and a second call that
\* found the repository on the branch and the upstream remote in place has not set
\* ERROR when it comes to the fetch.
C13_SecondCallNoError ==
    /\ ReturnedCalls(2) =>
          /\ outputs[1] = outputs[2]
          /\ git["core"].current = outputs[2][2]
    /\ (/\ InCall(2)
        /\ pc = "prep_fetch"
        /\ prep.calls = <<"git rev-parse --abbrev-ref HEAD", "git remote add upstream">>
        /\ git["core"].upstream_remote) => ERROR = prep.og_error

CheckoutAttempts == <<"git rev-parse --abbrev-ref HEAD", "git checkout -b", "git checkout">>

\* C14: `git checkout -b` is the first command after the probe when the repository is
\* not on the branch; `git checkout` runs only right after a failed `git checkout -b`;
\* a call that goes on after the fallback has the branch checked out; and when both
\* fail the call ends with SystemExit naming the branch, having run no upstream
\* command and published no output.
C14_CheckoutFallback ==
    /\ pc = "prep_checkout_new" => prep.calls = SubSeq(CheckoutAttempts, 1, 1)
    /\ pc = "prep_checkout_existing" => (prep.calls = SubSeq(CheckoutAttempts, 1, 2) /\ ERROR)
    /\ \A i \in 1..Len(prep.calls) :
          /\ prep.calls[i] = "git checkout -b" => i = 2
          /\ prep.calls[i] = "git checkout" => (i = 3 /\ prep.calls[2] = "git checkout -b")
    /\ (Len(prep.calls) >= 3 /\ prep.calls[3] = "git checkout" /\ exc.type = "none") =>
          git[prep.repo].current = prep.branch_name
    /\ exc.type = "SystemExit" =>
          /\ Ended
          /\ prep.calls = CheckoutAttempts
          /\ exc.args = <<"1", "Failed to create or checkout branch", prep.branch_name>>
          /\ Len(outputs) = Len(invoked) - 1

\* C14 witness: a call with an upstream repository ended with SystemExit after both
\* checkouts failed
C14_Witness ==
    /\ Ended
    /\ exc.type = "SystemExit"
    /\ prep.upstream_repo # <<>>
    /\ prep.calls = CheckoutAttempts


C16_RemoteExistsTolerated ==
    [][(pc = "prep_remote_add" /\ git[prep.repo].upstream_remote /\ exc'.type = "none") =>
          (pc' = "prep_fetch" /\ ERROR' = ERROR)]_vars

\* the custom branch variable as the calls of SpecPrep read it
CustomBranchValue == env["INPUT_HOMEBREW_CORE_HEAD_BRANCH"]
AutoName == <<"r","e","l","e","a","s","e","_","h","o","m","e","b","r","e","w","_","a","c","t","i","o","n","/","h","w">>
\* what a call has settled on: the name it computed, the branch the repository
\* is on when the name is published, and every value published so far
BranchUsed(name) ==
    /\ (pc \notin {"prepare_repo_branch", "end"}) => prep.branch_name = name
    /\ pc = "prep_publish" => git[prep.repo].current = name
    /\ \A i \in 1..Len(outputs) : outputs[i] = <<"homebrew_core_branch", name>>
    /\ (pc = "prepare_repo_branch" /\ Len(invoked) > 0) => git["core"].current = name

\* C17 as stated: the branch name is the value of the custom branch variable
\* itself whenever that value is non-empty after trimming, and otherwise
\* 'release_homebrew_action/<branch_suffix>'; that name is checked out,
\* published and returned.
C17_BranchNameIsValue ==
    Len(invoked) > 0 =>
        BranchUsed(IF Strip(CustomBranchValue) # <<>> THEN CustomBranchValue ELSE AutoName)
\* C17 amended: the branch name is the TRIMMED value of the custom branch
\* variable when the trimmed value is non-empty, and otherwise
\* 'release_homebrew_action/<branch_suffix>'; that name is checked out,
\* published and returned.
C17_BranchNameIsTrimmedValue ==
    Len(invoked) > 0 =>
        BranchUsed(IF CustomBranchValue = <<" ","c","b"," ">> THEN <<"c","b">> ELSE AutoName)
C17_Witness ==
    /\ pc = "prepare_repo_branch" /\ Len(invoked) > 0
    /\ CustomBranchValue = <<" ","c","b"," ">>
    /\ outputs = <<<<"homebrew_core_branch", <<"c","b">>>>>>
    /\ git["core"].current = <<"c","b">>

\* C18: after a call with a cwd argument the working directory of the process
\* is the one it had immediately before the call, both when the child was
\* started and when starting it raised.
C18_CwdRestored ==
    (rd.cwd_arg # "None" /\ rd.pc # "_setup_process") => rd.cwd = rd.cwd_before

\* the steps whose command names the tap: main.py:716, 764, 778, 792, 818-819, 898, 931
TapSteps == {"brew_test_bot_only_cleanup_before", "brew_test_bot_only_setup", "audit_formula",
             "brew_test_bot_only_tap_syntax", "install_formula", "test_formula",
             "brew_test_bot_only_formulae"}
\* main.py:716, the formula reference a step puts in its command
FormulaRef == tap_repo_name \o <<"/">> \o Formula
\* '<lowercased owner>/<tap>/<formula>' for the two accepted repository inputs
ExpectedRef(org_homebrew_repo) ==
    IF org_homebrew_repo = <<"O","w","/","h","o","m","e","b","r","e","w","-","t","a","p">>
    THEN <<"o","w","/","t","a","p","/","h","w">>
    ELSE <<"l","i","z","a","r","d","b","y","t","e","/","a","c","t","i","o","n","s","/","h","w">>

\* C19: in a main() run tap_repo_name is assigned once, in process_input_formula
\* and before any step that names the tap has been invoked, and is not changed
\* afterwards; whenever such a step has been invoked, the formula reference is
\* '<lowercased owner>/<tap>/<formula>' for the repository input of the run.
C19_TapIdentityOnce ==
    [][/\ tap_repo_name' # tap_repo_name =>
             /\ pc = "get_tap_name" /\ tap_repo_name = <<>>
             /\ Range(invoked) \cap TapSteps = {}
       /\ Range(invoked') \cap TapSteps # {} =>
             /\ "INPUT_ORG_HOMEBREW_REPO" \in DOMAIN env'
             /\ FormulaRef' = ExpectedRef(env'["INPUT_ORG_HOMEBREW_REPO"])]_vars
C19_Witness ==
    /\ Ended /\ exc.type = "returned"
    /\ TapSteps \subseteq Range(invoked)
    /\ tap_repo_name = <<"o","w","/","t","a","p">>

\* the class-level `version "X"` lines of FormulaLines and their quoted values
VersionLineValue == (L_version_1 :> <<"1">>) @@ (L_version_2 :> <<"2">>)
FirstVersionLine(lines) ==
    CHOOSE i \in 1..Len(lines) :
        /\ lines[i] \in DOMAIN VersionLineValue
        /\ \A k \in 1..(i - 1) : lines[k] \notin DOMAIN VersionLineValue

\* C20: for a readable formula file with at least one class-level `version "X"`
\* line, extract_version_from_formula returns the quoted value of the first such
\* line, whether tag: lines come before it, after it or not at all.
C20_FirstVersionLine ==
    (/\ pc = "end" /\ fs.formula_file.exists
     /\ \E i \in 1..Len(fs.lines) : fs.lines[i] \in DOMAIN VersionLineValue) =>
        commit.version = VersionLineValue[fs.lines[FirstVersionLine(fs.lines)]]
C20_Witness ==
    /\ pc = "end" /\ fs.formula_file.exists
    /\ fs.lines = <<L_tag_3, L_version_2, L_tag_5, L_version_1>>
    /\ commit.version = <<"2">>

\* the tag: lines of FormulaLines that hold a quoted substring, and that substring
TagLineValue == (L_tag_3 :> <<"v","3">>) @@ (L_tag_5 :> <<"v","5">>)
FirstTagLine(lines) ==
    CHOOSE i \in 1..Len(lines) :
        /\ lines[i] \in DOMAIN TagLineValue
        /\ \A k \in 1..(i - 1) : lines[k] \notin DOMAIN TagLineValue
NoVersionLine(lines) == \A i \in 1..Len(lines) : lines[i] \notin DOMAIN VersionLineValue

\* C21: for a readable formula file with no matching version line,
\* extract_version_from_formula returns the quoted substring of the first tag:
\* line that has one, at any indentation; later tag: lines do not replace it;
\* with no such tag: line either, the result is None.
C21_FirstTagLine ==
    (pc = "end" /\ fs.formula_file.exists /\ NoVersionLine(fs.lines)) =>
        IF \E i \in 1..Len(fs.lines) : fs.lines[i] \in DOMAIN TagLineValue
        THEN commit.version = TagLineValue[fs.lines[FirstTagLine(fs.lines)]]
        ELSE commit.version = None
C21_Witness ==
    /\ pc = "end" /\ fs.formula_file.exists
    /\ fs.lines = <<L_tag_open, L_tag_5, L_version_open, L_tag_3>>
    /\ commit.version = <<"v","5">>

\* C22: the version rule takes a line only when it begins with exactly two
\* blanks: the value of a version line with zero, one, three, four or more
\* leading blanks is never the result.
C22_ExactlyTwoSpaces ==
    pc = "end" =>
        \A n \in (0..MaxIndent) \ {2} : commit.version # IndentValue(n)

\* C23: extract_version_from_formula never raises and changes neither ERROR nor
\* FAILURES; for a file that cannot be opened it prints the failure and
\* returns None.
C23_NeverRaises ==
    [][pc = "extract_version" =>
          /\ pc' = "end" /\ exc' = NoExc
          /\ ERROR' = ERROR /\ FAILURES' = FAILURES
          /\ ~fs.formula_file.exists =>
                /\ commit'.version = None
                /\ printed'["stdout"] = <<"Could not extract version from formula">>]_vars
C23_Witness ==
    /\ pc = "end" /\ ~fs.formula_file.exists /\ exc = NoExc
    /\ commit.version = None /\ printed["stdout"] # <<>>
    /\ fs.lines = <<L_version_1>>

\* a version is present when it is a string that is not empty
VersionPresent(v) == v # None /\ v # <<>>
NewFormulaSuffix == <<" ","(","n","e","w"," ","f","o","r","m","u","l","a",")">>

\* C24: generate_commit_message returns '<name> <version> (new formula)' for a
\* present version and is_new, '<name> (new formula)' for no version and
\* is_new, '<name> <version>' for a present version and not is_new, '<name>'
\* for no version and not is_new; it changes nothing but its result.
C24_FourTemplates ==
    [][pc = "generate_commit_message" =>
          /\ commit'.message =
                CASE VersionPresent(commit.version) /\ commit.is_new ->
                        commit.formula \o <<" ">> \o commit.version \o NewFormulaSuffix
                  [] ~VersionPresent(commit.version) /\ commit.is_new ->
                        commit.formula \o NewFormulaSuffix
                  [] VersionPresent(commit.version) /\ ~commit.is_new ->
                        commit.formula \o <<" ">> \o commit.version
                  [] ~VersionPresent(commit.version) /\ ~commit.is_new ->
                        commit.formula
          /\ UNCHANGED <<exc, ERROR, FAILURES, tap_repo_name, env, fs, git, outputs>>]_vars
C24_Witness ==
    /\ pc = "end" /\ commit.formula = <<"m","y","_","a","p","p">> /\ commit.is_new
    /\ commit.version = <<"1",".","2",".","3">>
    /\ commit.message = <<"m","y","_","a","p","p"," ","1",".","2",".","3"," ","(","n","e","w"," ","f","o","r","m","u","l","a",")">>

\* the prefix rule on an owner and a repository name: what the call has to give
PrefixRule(owner, repo_name) ==
    IF Len(repo_name) >= 9 /\ SubSeq(repo_name, 1, 9) = <<"h","o","m","e","b","r","e","w","-">>
    THEN /\ pc = "end" /\ exc = NoExc
         /\ commit.ret = <<owner, SubSeq(repo_name, 10, Len(repo_name))>>
    ELSE IF owner = <<"L","i","z","a","r","d","B","y","t","e">> /\ repo_name = <<"a","c","t","i","o","n","s">>
    THEN /\ pc = "end" /\ exc = NoExc
         /\ commit.ret = <<owner, repo_name>>
    ELSE /\ pc = "end" /\ exc.type = "ValueError"
         /\ exc.args = <<"does not follow Homebrew tap naming convention",
                         env.INPUT_ORG_HOMEBREW_REPO>>
         /\ commit.ret = None

\* C25: for an input 'owner/repo', _get_tap_name_from_repo returns the owner as
\* given and the repository name without 'homebrew-' when it has that prefix,
\* returns ('LizardByte', 'actions') for exactly 'LizardByte/actions', and for
\* every other repository name raises a ValueError naming the input and the
\* naming convention.
C25_TapNameRule ==
    (pc = "end" /\ Len(commit.parts) = 2) => PrefixRule(commit.parts[1], commit.parts[2])
C25_Witness ==
    /\ pc = "end" /\ commit.parts = <<<<"O","w">>, <<"h","o","m","e","b","r","e","w","-","t","a","p">>>>
    /\ commit.ret = <<<<"O","w">>, <<"t","a","p">>>>

\* C26: for an input with more than one '/', the owner is the text before the
\* first '/' and the repository name is everything after it, and the prefix
\* rule is applied to that name.
C26_SplitOnFirstSlash ==
    (pc = "end" /\ Len(commit.parts) > 2) =>
        PrefixRule(commit.parts[1], Join(Tail(commit.parts), "/"))

\* C27: a formula path that does not exist, is not a regular file, or does not
\* end in '.rb' makes process_input_formula raise FileNotFoundError,
\* FileNotFoundError or ValueError, the checks being made in that order, before
\* any subprocess is launched and with ERROR, FAILURES and tap_repo_name as
\* they were.
C27_FormulaPathChecks ==
    [][(pc = "process_input_formula" /\ ~(fs.formula_file.exists /\ fs.formula_file.isfile /\ fs.formula_file.rb)) =>
          /\ pc' = "end"
          /\ exc' = CASE ~fs.formula_file.exists -> [type |-> "FileNotFoundError", args |-> <<"does not exist">>]
                      [] fs.formula_file.exists /\ ~fs.formula_file.isfile ->
                            [type |-> "FileNotFoundError", args |-> <<"is not a file">>]
                      [] OTHER -> [type |-> "ValueError", args |-> <<"is not a .rb file">>]
          /\ calls' = <<>> /\ prep' = NoPrep /\ commit' = NoCommit
          /\ ERROR' = ERROR /\ FAILURES' = FAILURES /\ tap_repo_name' = tap_repo_name
          /\ tap_repo_name = <<>>]_vars
C27_Witness ==
    /\ Ended /\ exc = [type |-> "FileNotFoundError", args |-> <<"does not exist">>]
    /\ ~fs.formula_file.exists /\ ~fs.formula_file.rb
    /\ Last(invoked) = "process_input_formula" /\ calls = <<>>

CopyFailed == exc.type = "FileNotFoundError" /\ Len(exc.args) = 2 /\ exc.args[1] = "was not copied to"

\* C28: when the existence check after a copy fails at a destination,
\* FileNotFoundError is raised at that destination: only the destinations
\* before it were copied to, no commit is made, no commit message is published
\* and no validation step runs.
C28_CopyFailureIsFatal ==
    CopyFailed =>
        /\ Ended /\ Last(invoked) = "process_input_formula"
        /\ \E k \in 1..Len(commit.tap_dirs) :
              /\ commit.tap_dirs[k] = exc.args[2]
              /\ fs.copied = SubSeq(commit.tap_dirs, 1, k - 1)
        /\ commit.calls = <<>> /\ commit.commit_messages = <<>>
        /\ \A i \in 1..Len(outputs) : outputs[i][1] # "commit_message"
        /\ Range(invoked) \cap Range(AccumulatingSteps) = {}
        /\ FAILURES = <<>>
C28_Witness ==
    /\ CopyFailed /\ exc.args[2] = "core" /\ fs.copied = <<"org">>
    /\ commit.tap_dirs = <<"org", "core", "tap">>

EndsWith(q, suffix) == Len(q) >= Len(suffix) /\ SubSeq(q, Len(q) - Len(suffix) + 1, Len(q)) = suffix

\* C29: at each destination of the commit loop, commit_formula_changes is
\* entered if and only if the repository root holds a .git directory, and a
\* destination without one is passed over with nothing recorded for it; the
\* message ends in ' (new formula)' if and only if the tracked-file query
\* exited non-zero; the step leaves ERROR as it was.
C29_CommitOnlyGitRepos ==
    [][/\ (pc = "commit_next" /\ commit.todo # <<>>) =>
             LET p == commit'.probes[Len(commit'.probes)] IN
             /\ Len(commit'.probes) = Len(commit.probes) + 1
             /\ p.dir = Head(commit.todo)
             /\ (pc' = "is_formula_tracked") <=> p.is_git
             /\ ~p.is_git =>
                   /\ pc' = "commit_next" /\ commit'.todo = Tail(commit.todo)
                   /\ commit'.commit_messages = commit.commit_messages
                   /\ commit'.calls = <<>>
       /\ pc = "generate_commit_message" =>
             /\ pc' = "git_config_email"
             /\ commit'.commit_messages = Append(commit.commit_messages, <<Head(commit.todo), commit'.message>>)
             /\ EndsWith(commit'.message, <<" ","(","n","e","w"," ","f","o","r","m","u","l","a",")">>)
                   <=> commit.returncode # 0
       /\ pc \in {"commit_next", "is_formula_tracked", "generate_commit_message"} =>
             (ERROR' = ERROR /\ exc' = exc)
       /\ pc' \in {"is_formula_tracked", "generate_commit_message", "git_config_email",
                    "git_config_name", "git_add", "git_commit"} =>
             LET p == commit'.probes[Len(commit'.probes)] IN
             p.is_git /\ p.dir = Head(commit'.todo)]_vars
C29_Witness ==
    /\ pc = "commit_next" /\ commit.todo = <<>>
    /\ commit.probes = <<[dir |-> "org", is_git |-> FALSE], [dir |-> "core", is_git |-> TRUE],
                         [dir |-> "tap", is_git |-> TRUE]>>
    /\ Len(commit.commit_messages) = 2
    /\ EndsWith(commit.commit_messages[1][2], <<" ","(","n","e","w"," ","f","o","r","m","u","l","a",")">>)
    /\ ~EndsWith(commit.commit_messages[2][2], <<" ","(","n","e","w"," ","f","o","r","m","u","l","a",")">>)
\* C30: a `git commit` that exits non-zero never surfaces: the step raises
\* nothing, leaves ERROR and FAILURES as they were and goes on to the next
\* destination exactly as after a commit that succeeded, so the exit status of
\* the commit has no part in how the run ends; and a run ends in SystemExit
\* only with ERROR set or with a failed step before the accumulating steps.
C30_CommitFailureIgnored ==
    [][/\ (pc = "git_commit" /\ commit'.returncode # -1) =>
             /\ exc' = exc /\ pc' = "commit_next"
             /\ ERROR' = ERROR /\ FAILURES' = FAILURES /\ status' = status
             /\ commit' = [commit EXCEPT !.todo = Tail(@), !.calls = Append(@, "git commit -m"),
                                         !.returncode = commit'.returncode]
             /\ UNCHANGED <<git, fs, env, outputs, invoked, tap_repo_name>>
       /\ (exc'.type = "SystemExit" /\ exc.type = "none") =>
             \/ ERROR'
             \/ \E f \in {"is_brew_installed"} \cup Range(FatalSteps) : status'[f] = "False"]_vars
C30_Witness ==
    /\ pc = "commit_next" /\ commit.returncode = 1 /\ ~ERROR /\ exc = NoExc
    /\ commit.todo = <<>> /\ Len(commit.commit_messages) = 3

\* the first of HOMEBREW_TEMP, /private/tmp, /var/tmp that is a directory
FirstRoot(isdir) ==
    IF "HOMEBREW_TEMP" \in isdir THEN "HOMEBREW_TEMP"
    ELSE IF "/private/tmp" \in isdir THEN "/private/tmp"
    ELSE IF "/var/tmp" \in isdir THEN "/var/tmp" ELSE ""
\* the '<formula>-*' entries of the temp root that no call has returned yet
NewTmpDirs ==
    {d \in fs.tmp : Len(d) >= 3 /\ SubSeq(d, 1, 3) = <<"h","w","-">>
                     /\ <<FirstRoot(fs.isdir), d>> \notin Range(TEMP_DIRECTORIES)}

\* C31: a call of find_tmp_dir that returns gives a '<formula>-*' directory of
\* the first existing temp root that no earlier call returned, and appends
\* exactly that entry to TEMP_DIRECTORIES, which so never holds duplicates;
\* a call with no new matching directory raises FileNotFoundError and leaves
\* TEMP_DIRECTORIES as it was.
C31_FindTmpDirFresh ==
    [][invoked' # invoked =>
          IF NewTmpDirs # {} /\ FirstRoot(fs.isdir) # ""
          THEN /\ exc' = NoExc
               /\ \E d \in NewTmpDirs :
                     /\ calls' = Append(calls, <<FirstRoot(fs.isdir), d>>)
                     /\ TEMP_DIRECTORIES' = Append(TEMP_DIRECTORIES, <<FirstRoot(fs.isdir), d>>)
               /\ \A i, j \in 1..Len(TEMP_DIRECTORIES') :
                     TEMP_DIRECTORIES'[i] = TEMP_DIRECTORIES'[j] => i = j
               /\ \A i, j \in 1..Len(calls') : calls'[i] = calls'[j] => i = j
          ELSE /\ exc'.type = "FileNotFoundError"
               /\ TEMP_DIRECTORIES' = TEMP_DIRECTORIES /\ calls' = calls]_vars
C31_Witness ==
    /\ Len(invoked) = 3 /\ exc.type = "FileNotFoundError"
    /\ Len(TEMP_DIRECTORIES) = 2 /\ TEMP_DIRECTORIES[1] # TEMP_DIRECTORIES[2]
    /\ fs.isdir = {"/private/tmp", "/var/tmp"}
    /\ TEMP_DIRECTORIES[1][1] = "/private/tmp"

\* C32: brew_upgrade runs `brew update` first; a failed update makes it return
\* False with `brew update` its only subprocess call; `brew upgrade` runs only
\* after a successful update, and its result is then what brew_upgrade returns.
C32_UpdateThenUpgrade ==
    [][/\ (pc = "brew_update" /\ ~ERROR /\ ERROR') =>
              /\ status'["brew_upgrade"] = "False"
              /\ calls' = <<"brew update">>
              /\ pc' # "brew_upgrade"
       /\ (status["brew_upgrade"] = "none" /\ status'["brew_upgrade"] # "none") =>
              /\ calls' \in {<<"brew update">>, <<"brew update", "brew upgrade">>}
              /\ calls' = <<"brew update">> => (status'["brew_upgrade"] = "False" /\ ERROR')
              /\ status'["brew_upgrade"] = "False" => ERROR'
              /\ status'["brew_upgrade"] = "True" => ERROR' = ERROR
       /\ (calls' # calls /\ Len(calls') > 0 /\ Last(calls') = "brew upgrade") =>
              /\ calls = <<"brew update">>
              /\ pc = "brew_upgrade"
              /\ status["brew_upgrade"] = "none"
              /\ exc'.type = "OSError" \/ status'["brew_upgrade"] # "none"]_vars
C32_Witness ==
    /\ status["brew_upgrade"] = "False"
    /\ calls = <<"brew update">>
    /\ exc.type = "SystemExit"
    /\ Last(invoked) = "brew_upgrade"

\* the steps of the upstream sync of prepare_repo_branch
SyncSteps == {"prep_remote_add", "prep_fetch", "prep_reset"}

\* C33: a subprocess of the upstream sync (remote add, fetch, hard reset) that
\* fails ends the run there with SystemExit: the branch name is not published
\* and copy, commit and validation do not run.
C33_SyncFailureIsFatal ==
    [][(pc \in SyncSteps /\ ~ERROR /\ ERROR') =>
          (exc'.type = "SystemExit" /\ pc' \notin SyncSteps \cup {"prep_publish"})]_vars

\* the number of '/' in a string, and the text after its last '/'
Slashes(str) == Cardinality({i \in 1..Len(str) : str[i] = "/"})
AfterSlash(str) ==
    LET i == CHOOSE k \in 1..Len(str) : str[k] = "/" /\ \A j \in (k + 1)..Len(str) : str[j] # "/"
    IN SubSeq(str, i + 1, Len(str))
\* a repository identifier that is not '<owner>/homebrew-<tap>' and not the special case
Malformed(str) ==
    \/ Slashes(str) # 1
    \/ /\ str # S_LizardByte_actions
       /\ ~(Len(AfterSlash(str)) >= 9 /\ SubSeq(AfterSlash(str), 1, 9) = S_homebrew_)

\* C34: with a malformed repository identifier process_input_formula raises
\* ValueError when it resolves the tap identity: tap_repo_name keeps its value,
\* and no `brew tap`, branch preparation, copy or commit has happened or
\* happens afterwards.
C34_MalformedRaisesFirst ==
    [][/\ (pc = "get_tap_name" /\ Malformed(env'["INPUT_ORG_HOMEBREW_REPO"])) =>
              /\ exc'.type = "ValueError" /\ pc' = "end"
              /\ tap_repo_name' = tap_repo_name
       /\ exc'.type = "ValueError" =>
              /\ "brew tap" \notin Range(calls')
              /\ prep' = NoPrep /\ commit' = NoCommit
              /\ git' = git /\ fs'.copied = <<>> /\ outputs' = <<>>
              /\ tap_repo_name' = <<>>]_vars
C34_Witness ==
    /\ exc.type = "ValueError" /\ pc = "end"
    /\ "INPUT_ORG_HOMEBREW_REPO" \in DOMAIN env
    /\ env["INPUT_ORG_HOMEBREW_REPO"] = S_two_slashes
    /\ calls = <<"brew developer on">>
    /\ tap_repo_name = <<>>

\* the commands of the upstream sync in their order, and those of them the
\* call of prepare_repo_branch in progress has launched
SyncCommands == <<"git remote add upstream", "git fetch upstream --depth=1", "git reset --hard">>
SyncLaunched == SelectSeq(prep.calls, LAMBDA c : c \in Range(SyncCommands))

\* C35: the upstream sync runs only for a call given an upstream repository and
\* only once the target branch is the checked-out branch; its commands are
\* launched in the order remote add, fetch, reset with no other command between
\* them; a call without upstream, as that for the org repository, launches none
\* of them, and a call with upstream has launched all three when it publishes.
C35_SyncOnlyWithUpstream ==
    /\ IsPrefix(SyncLaunched, SyncCommands)
    /\ SyncLaunched # <<>> =>
          /\ prep.upstream_repo # <<>> /\ prep.repo = "core"
          /\ git[prep.repo].current = prep.branch_name
          /\ SubSeq(prep.calls, Len(prep.calls) - Len(SyncLaunched) + 1, Len(prep.calls)) = SyncLaunched
    /\ prep.repo = "org" => SyncLaunched = <<>>
    /\ pc = "prep_publish" =>
          SyncLaunched = IF prep.upstream_repo # <<>> THEN SyncCommands ELSE <<>>
C35_Witness ==
    /\ pc = "prep_publish" /\ prep.repo = "core"
    /\ SyncLaunched = SyncCommands
    /\ \E o \in Range(outputs) : o[1] = "org_homebrew_repo_branch"

\* C36: when `git checkout -b` failed, `git checkout` succeeded and there is no
\* upstream repository, prepare_repo_branch comes to publish the branch with
\* ERROR equal to its value when the call began, whether that was True or
\* False, and returns without changing it.
C36_FallbackRestoresError ==
    [][/\ (pc = "prep_checkout_existing" /\ pc' = "prep_publish") =>
              /\ prep'.calls = CheckoutAttempts /\ prep'.upstream_repo = <<>>
              /\ ERROR /\ ERROR' = prep.og_error
       /\ (pc = "prep_publish" /\ prep.upstream_repo = <<>> /\ prep.calls = CheckoutAttempts) =>
              /\ ERROR = prep.og_error
              /\ ERROR' = ERROR /\ exc' = NoExc /\ pc' = prep.return]_vars
C36_Witness ==
    /\ pc = "prep_publish" /\ prep.repo = "org" /\ prep.upstream_repo = <<>>
    /\ prep.calls = CheckoutAttempts
    /\ git["org"].current = prep.branch_name
    /\ ~prep.og_error /\ ~ERROR

\* the branch of a repository has been prepared: prepare_repo_branch has
\* published its name
Published(name) == \E i \in 1..Len(outputs) : outputs[i][1] = name
Prepared(repo) ==
    \/ repo = "org" /\ Published("org_homebrew_repo_branch")
    \/ repo = "core" /\ Published("homebrew_core_branch")
ContributeEnabled ==
    /\ "INPUT_CONTRIBUTE_TO_HOMEBREW_CORE" \in DOMAIN env
    /\ Lower(env["INPUT_CONTRIBUTE_TO_HOMEBREW_CORE"]) = S_true
\* the order up to the copy: tap identity, org branch, core-fork branch only when
\* contribution is enabled, the sync before anything is copied, copy before commits
OrderUpToCopy ==
    /\ pc = "prepare_org" => (tap_repo_name # <<>> /\ outputs = <<>> /\ fs.copied = <<>>)
    /\ pc = "prepare_core" => (Prepared("org") /\ ContributeEnabled /\ fs.copied = <<>>)
    /\ prep.repo # "" => fs.copied = <<>>
    /\ pc = "copy" =>
          /\ Prepared("org") /\ (Prepared("core") <=> ContributeEnabled)
          /\ commit.probes = <<>> /\ commit.commit_messages = <<>>
    /\ pc = "git_commit" => Head(commit.todo) \in Range(fs.copied)

\* C37 as stated: the order is tap identity, org branch, core-fork branch when
\* contribution is enabled, copy, commits; the hard reset comes before the
\* copy; and every commit is made in a repository whose branch was prepared.
C37_FixedOrder ==
    /\ OrderUpToCopy
    /\ pc = "git_commit" => Prepared(Head(commit.todo))

\* C37 amended: the same order, but only the commit to the org repository, and
\* that to the core fork when contribution is enabled, is made on a prepared
\* branch: the core fork with contribution disabled and the tapped location
\* are committed to without any branch preparation.
C37_FixedOrderPreparedWhenEnabled ==
    /\ OrderUpToCopy
    /\ pc = "git_commit" =>
          CASE Head(commit.todo) = "org" -> Prepared("org")
            [] Head(commit.todo) = "core" -> (Prepared("core") <=> ContributeEnabled)
            [] OTHER -> ~Prepared(Head(commit.todo))
C37_Witness ==
    /\ pc = "git_commit" /\ Head(commit.todo) = "core"
    /\ ~ContributeEnabled /\ ~Prepared("core") /\ Prepared("org")
    /\ "core" \in Range(fs.copied)
    /\ \E i \in 1..Len(commit.probes) : commit.probes[i] = [dir |-> "org", is_git |-> TRUE]

\* the values published under an output name
OutputValues(name) == {outputs[i][2] : i \in {k \in 1..Len(outputs) : outputs[k][1] = name}}

\* C38: the 'testpath' output is never the directory of the 'buildpath' output,
\* and once test_formula has been entered the HOMEBREW_BUILDPATH entry of the
\* environment given to `brew test` is the buildpath that install published.
C38_DistinctTempPaths ==
    /\ OutputValues("buildpath") \cap OutputValues("testpath") = {}
    /\ "test_formula" \in Range(invoked) =>
          OutputValues("buildpath") =
              {test_formula_env(HOMEBREW_BUILDPATH, env["HOMEBREW_BUILDPATH"])}

\* the steps of process_input_formula that come after the branch preparation
AfterPreparation ==
    {"tap_dirs", "copy", "extract_version", "commit_next", "is_formula_tracked",
     "generate_commit_message", "git_config_email", "git_config_name", "git_add", "git_commit"}
\* how many times an output name has been published
TimesPublished(name) == Cardinality({i \in 1..Len(outputs) : outputs[i][1] = name})

\* C39: the core-fork branch is prepared only when
\* INPUT_CONTRIBUTE_TO_HOMEBREW_CORE is 'true' in any letter case, and once the
\* branch preparation is over 'homebrew_core_branch' has been published exactly
\* when it is; 'org_homebrew_repo_branch' has been published whenever the run
\* has come past the org preparation; no output is published twice, and none
\* for a preparation that ended the run.
C39_CoreBranchIffContribute ==
    /\ (prep.repo = "core" \/ Published("homebrew_core_branch")) => ContributeEnabled
    /\ pc \in AfterPreparation =>
          /\ Published("org_homebrew_repo_branch")
          /\ Published("homebrew_core_branch") <=> ContributeEnabled
    /\ pc \in {"contribute_check", "prepare_core"} => Published("org_homebrew_repo_branch")
    /\ \A i \in 1..Len(outputs) : TimesPublished(outputs[i][1]) = 1
    /\ (Ended /\ prep.repo # "") =>
          (exc.type \in {"SystemExit", "OSError"} /\ ~Published(prep.output_name))
C39_Witness ==
    /\ pc = "copy"
    /\ env["INPUT_CONTRIBUTE_TO_HOMEBREW_CORE"] = S_True
    /\ Published("homebrew_core_branch") /\ Published("org_homebrew_repo_branch")
    /\ Len(outputs) = 2

====
